---- MODULE Spec2Model ----
(***************************************************************************)
(* BidLinkTracker, in six parts:                                           *)
(*   SpecWrite   the batchUpdateFeedback write cycle of the Sheets API     *)
(*               route, with the client (apiCall, handleMarkDuplicates)    *)
(*               that receives the response;                               *)
(*   SpecFetch   getJobUrlsFromTabs / getAllJobUrls of the route;          *)
(*   SpecUtils   normalizeUrl, areUrlsDuplicate, findDuplicates,           *)
(*               checkUrlDuplicate and parseTabRange of duplicateChecker;  *)
(*   SpecBidder  the bidder page: handleCheckDuplicates, loadExistingData  *)
(*               with its cache, handleProfileSelected;                    *)
(*   SpecStrings normalizeUrl over URL texts with queries and fragments,   *)
(*               and sortTabsByDate of jobAnalyzer;                        *)
(*   SpecManager the bid manager page: handleCheckDuplicates,              *)
(*               handleMarkDuplicates and handleSetActive of the           *)
(*               AccountManager.                                           *)
(*                                                                         *)
(* The repository holds three versions of the API route:                   *)
(*   "server"  src/server.js          (precedence filter, fallback over    *)
(*                                      filteredUpdates)                   *)
(*   "vercel"  src/unnamed/part_003   (precedence filter, fallback over    *)
(*                                      updates)                           *)
(*   "legacy"  src/api/sheets.ts      (no precedence filter)               *)
(* The variable impl selects the version a behaviour runs.                 *)
(***************************************************************************)
EXTENDS Integers, Sequences, FiniteSets, TLC

(***************************************************************************)
(* Bounds of the model                                                     *)
(***************************************************************************)
MaxUpdates == 2
MaxOtherErrors == 1
MaxTabNames == 3
MaxEntries == 3
MaxTime == 6

Impls == {"server", "vercel", "legacy"}
\* the tab and the data rows a write request may target
Tabs == {"t1"}
GridRows == {2, 3, 4}

(***************************************************************************)
(* Cell texts.  A text is a sequence of segments; the two markers the code *)
(* searches for with String.includes are segments of their own.  Cell      *)
(* texts of the feedback column carry no surrounding whitespace here, so   *)
(* the trim() of the read is not modelled for them.                        *)
(***************************************************************************)
JobUrlMark == "- Job Url"
AppliedUrlMark == "- Applied Url"
EmptyText == << >>
JobUrlText == <<"Duplicated of Sheet", JobUrlMark>>
AppliedUrlText == <<"Duplicated of Sheet", AppliedUrlMark>>

Includes(text, mark) == \E k \in DOMAIN text : text[k] = mark

(***************************************************************************)
(* The updates of a request                                                *)
(***************************************************************************)
\* handleMarkDuplicates builds the feedback text from the entry's sourceColumn
SourceKinds ==
  { [sourceColumn |-> "F", feedback |-> JobUrlText],
    [sourceColumn |-> "G", feedback |-> AppliedUrlText] }

UpdateValues ==
  { [tabName |-> t, rowIndex |-> r, feedback |-> k.feedback,
     sourceColumn |-> k.sourceColumn] :
      t \in Tabs, r \in GridRows, k \in SourceKinds }

UpdateLists == UNION { [1..n -> UpdateValues] : n \in 0..MaxUpdates }

VARIABLES
  impl,            \* which version of the route runs
  updates,         \* req.body.updates
  sheetH,          \* column H (Approved) of the spreadsheet, by tab and row
  sheetI,          \* column I (Feedback) of the spreadsheet, by tab and row
  protectedCells,  \* the write-protected cells <<tab, row, column>>
  pc,              \* position of the handler / client
  readQueue,       \* tabs of updatesByTab still to be read
  feedbackChecks,  \* Map `${tabName}!I${rowIndex}` -> existing feedback
  filteredUpdates, \* indices (into updates) of the updates to write
  skippedUpdates,  \* indices (into updates) of the updates skipped
  cursor,          \* position of the fallback loop
  successful,      \* fallback: indices written
  failed,          \* fallback: failure records
  response,        \* the HTTP response of the route
  callerResult,    \* what handleMarkDuplicates shows
  batchResult,     \* history: how the batch write ended
  attempts,        \* history: the cell writes attempted, in order
  errorsLeft,      \* non-protection failures the API may still produce
  readFailed,      \* history: tabs whose feedback read failed
  sheetI0,         \* history: column I when the request arrived
  fetchAction,     \* the fetch request: "getJobUrlsFromTabs" or "getAllJobUrls"
  tabNames,        \* the tabs the fetch reads, in order
  sheetData,       \* the rows values.get returns for `${tabName}!A:J`, by tab
  tabStatus,       \* per requested tab: "pending", "ok" or "failed"
  tabResults,      \* per requested tab: the tabUrls its read produced
  allUrls,         \* the aggregate of the fetch
  fetchCursor,     \* getAllJobUrls: position of the sequential loop
  fetchResponse,   \* the HTTP response of the fetch
  fpc              \* position of the fetch handler

\* the duplicate checker utilities (src/src/utils/duplicateChecker.ts)
VARIABLES
  allEntries,      \* findDuplicates / checkUrlDuplicate: the entries given
  submitted,       \* checkUrlDuplicate / areUrlsDuplicate: the URL given
  otherUrl,        \* areUrlsDuplicate: the second URL
  duplicates,      \* what findDuplicates returned, groups in Map order
  dupCheck,        \* what checkUrlDuplicate returned
  sameUrls,        \* what areUrlsDuplicate returned
  urlKey,          \* what normalizeUrl returned
  sortedTabs       \* sortTabsByDate: the array given and the array returned

\* the bidder's duplicate check (src/src/components/Bidder/JobLinkInput.tsx)
VARIABLES
  bidderInfo,      \* the active profile (state bidderInfo)
  sessionSheet,    \* sessionStorage 'bidlinktracker_spreadsheet_id'
  cacheRef,        \* cacheRef.current
  existingUrls,    \* state existingUrls
  now,             \* Date.now(), in minutes
  cpc,             \* position of handleCheckDuplicates / loadExistingData
  closure,         \* what the running handler captured when it was called
  allTabsCount,    \* loadExistingData: allTabs.length
  fetchedUrls,     \* loadExistingData: allUrls of the last 4 tabs
  loadedUrls,      \* handleCheckDuplicates: what loadExistingData returned
  uiError,         \* state error
  linkStatuses,    \* state linkStatuses
  lookup,          \* history: the cache check of this call and what it saw
  requests,        \* history: the API requests this call issued
  usedUrls,        \* history: the urlsToCheck the links were checked against
  switched,        \* history: a profile was selected while a call was running
  leftScope        \* history: the profile of the last non-empty slot a selection cleared

\* the bid manager's page (src/src/components/BidManager/DuplicateChecker.tsx)
VARIABLES
  activeAccountId, \* localStorage 'bidlinktracker_active_account'
  storedSheetId,   \* sessionStorage 'bidlinktracker_spreadsheet_id'
  hasActiveAccount,\* state hasActiveAccount
  tabCount,        \* state tabCount: the value of the select
  shownDuplicates, \* state duplicates: the groups on display
  checkedTabs,     \* state checkedTabs
  mpc,             \* position of handleCheckDuplicates (state loading)
  tabsToCheck,     \* handleCheckDuplicates: its local tabsToCheck
  checkRequest,    \* the request handleCheckDuplicates awaits
  upc,             \* position of handleMarkDuplicates (state updating)
  markRequest,     \* the batchUpdateFeedback request handleMarkDuplicates awaits
  pageError,       \* state error
  computedFrom,    \* history: the spreadsheet the groups on display were computed from
  written          \* history: the spreadsheets written to, each with the origin of the groups

wvars == <<impl, updates, sheetH, sheetI, protectedCells, pc, readQueue,
           feedbackChecks, filteredUpdates, skippedUpdates, cursor, successful,
           failed, response, callerResult, batchResult, attempts, errorsLeft,
           readFailed, sheetI0>>

fvars == <<fetchAction, tabNames, sheetData, tabStatus, tabResults, allUrls, fetchCursor,
           fetchResponse, fpc>>

dvars == <<allEntries, submitted, otherUrl, duplicates, dupCheck, sameUrls,
           urlKey, sortedTabs>>

cvars == <<bidderInfo, sessionSheet, cacheRef, existingUrls, now, cpc, closure,
           allTabsCount, fetchedUrls, loadedUrls, uiError, linkStatuses, lookup,
           requests, usedUrls, switched, leftScope>>

mvars == <<activeAccountId, storedSheetId, hasActiveAccount, tabCount,
           shownDuplicates, checkedTabs, mpc, tabsToCheck, checkRequest, upc,
           markRequest, pageError, computedFrom, written>>

vars == <<wvars, fvars, dvars, cvars, mvars>>

\* what the actions of one part of the program leave alone
notWrite == <<fvars, dvars, cvars, mvars>>
notFetch == <<wvars, dvars, cvars, mvars>>
notUtils == <<wvars, fvars, cvars, mvars>>
notBidder == <<wvars, fvars, dvars, mvars>>
notManager == <<wvars, fvars, dvars, cvars>>

(***************************************************************************)
(* Helpers                                                                 *)
(***************************************************************************)
Min(S) == CHOOSE x \in S : \A y \in S : x <= y
Max(S) == CHOOSE x \in S : \A y \in S : x >= y

RECURSIVE TabOrder(_, _)
\* keys of updatesByTab in insertion order (first occurrence of each tab)
TabOrder(us, seen) ==
  IF us = << >> THEN << >>
  ELSE IF Head(us).tabName \in seen THEN TabOrder(Tail(us), seen)
  ELSE <<Head(us).tabName>> \o TabOrder(Tail(us), seen \cup {Head(us).tabName})

TargetRows(us, tab) == { us[i].rowIndex : i \in {j \in DOMAIN us : us[j].tabName = tab} }

Key(tab, row) == <<tab, row>>

\* no request of the bid manager's page is awaited
NoRequest == [action |-> "none", spreadsheetId |-> "none"]

\* the bid manager's page is not open
ManagerIdle ==
  /\ activeAccountId = "none"
  /\ storedSheetId = "none"
  /\ hasActiveAccount = FALSE
  /\ tabCount = "all"
  /\ shownDuplicates = << >>
  /\ checkedTabs = << >>
  /\ mpc = "idle"
  /\ tabsToCheck = << >>
  /\ checkRequest = NoRequest
  /\ upc = "idle"
  /\ markRequest = NoRequest
  /\ pageError = "none"
  /\ computedFrom = "none"
  /\ written = {}

NoResponse == [status |-> 0]

\* no fetch request is in progress
FetchIdle ==
  /\ fetchAction = "none"
  /\ tabNames = << >>
  /\ sheetData = << >>
  /\ tabStatus = << >>
  /\ tabResults = << >>
  /\ allUrls = << >>
  /\ fetchCursor = 1
  /\ fetchResponse = NoResponse
  /\ fpc = "idle"

\* no call of a duplicate checker utility has been made
NotCalled == [called |-> FALSE]

UtilsIdle ==
  /\ allEntries = << >>
  /\ submitted = << >>
  /\ otherUrl = << >>
  /\ duplicates = NotCalled
  /\ dupCheck = NotCalled
  /\ sameUrls = NotCalled
  /\ urlKey = NotCalled
  /\ sortedTabs = NotCalled

\* cacheRef.current = null
NoCache == [spreadsheetId |-> "none", profileName |-> "none", urls |-> << >>,
            timestamp |-> 0]

NoClosure == [bidderInfo |-> "none", existingUrls |-> << >>, now |-> 0,
              links |-> << >>]

\* loadExistingData has not received the URLs of the last 4 tabs
NotFetched == [fetched |-> FALSE, urls |-> << >>]

\* the cache has not been looked up
NoLookup == [outcome |-> "none", cache |-> NoCache, spreadsheetId |-> "none",
             profileName |-> "none", now |-> 0]

\* the bidder page is not mounted
BidderIdle ==
  /\ bidderInfo = "none"
  /\ sessionSheet = "none"
  /\ cacheRef = NoCache
  /\ existingUrls = << >>
  /\ now = 0
  /\ cpc = "idle"
  /\ closure = NoClosure
  /\ allTabsCount = 0
  /\ fetchedUrls = NotFetched
  /\ loadedUrls = << >>
  /\ uiError = "none"
  /\ linkStatuses = << >>
  /\ lookup = NoLookup
  /\ requests = << >>
  /\ usedUrls = << >>
  /\ switched = FALSE
  /\ leftScope = "none"

(***************************************************************************)
(* The initial state: a request has arrived.  Only the cells the cycle can *)
(* read (column I between the lowest and highest target row of a tab) or   *)
(* write (columns H and I of the target rows) vary; every other cell is    *)
(* empty and unprotected.  A row has at most one protected column: the H   *)
(* write of a row comes first, so a row with both columns protected        *)
(* behaves as a row with column H protected.                               *)
(***************************************************************************)
TargetCells(us) ==
  { <<us[i].tabName, us[i].rowIndex, col>> : i \in DOMAIN us, col \in {"H", "I"} }

InReadRange(us, tab, row) ==
  /\ TargetRows(us, tab) # {}
  /\ Min(TargetRows(us, tab)) <= row
  /\ row <= Max(TargetRows(us, tab))

AllOf(us) == [k \in 1..Len(us) |-> k]

WriteInit ==
  /\ ManagerIdle
  /\ impl \in Impls
  /\ updates \in UpdateLists
  /\ sheetH = [t \in Tabs |-> [r \in GridRows |-> "TRUE"]]
  /\ sheetI \in [Tabs -> [GridRows -> {EmptyText, JobUrlText}]]
  /\ \A t \in Tabs : \A r \in GridRows :
       sheetI[t][r] # EmptyText => InReadRange(updates, t, r)
  /\ sheetI0 = sheetI
  /\ protectedCells \in SUBSET TargetCells(updates)
  /\ \A c \in protectedCells : c[3] = "I" => <<c[1], c[2], "H">> \notin protectedCells
  /\ readQueue = IF impl = "legacy" THEN << >> ELSE TabOrder(updates, {})
  /\ pc = IF impl = "legacy" THEN "batch"
          ELSE IF readQueue = << >> THEN "filter" ELSE "read"
  /\ feedbackChecks = << >>
  /\ filteredUpdates = IF impl = "legacy" THEN AllOf(updates) ELSE << >>
  /\ skippedUpdates = << >>
  /\ cursor = 1
  /\ successful = << >>
  /\ failed = << >>
  /\ response = NoResponse
  /\ callerResult = "none"
  /\ batchResult = "none"
  /\ attempts = << >>
  /\ errorsLeft = MaxOtherErrors
  /\ readFailed = {}
  /\ FetchIdle
  /\ UtilsIdle
  /\ BidderIdle

(***************************************************************************)
(* batchUpdateFeedback: read the existing feedback of one tab              *)
(***************************************************************************)
\* sheets.spreadsheets.values.get of `${tabName}!I${minRow}:I${maxRow}`:
\* a 0-based array, one element per row of the range
ColumnI(tab, minRow, maxRow) ==
  [k \in 0..(maxRow - minRow) |-> sheetI[tab][minRow + k]]

\* (feedbackData[arrayIndex] && feedbackData[arrayIndex][0] && ...trim()) || ''
FeedbackAt(feedbackData, arrayIndex) ==
  IF arrayIndex \in DOMAIN feedbackData THEN feedbackData[arrayIndex] ELSE EmptyText

\* const rowOffset = minRow - 1
RowOffset(minRow) == minRow - 1

\* the entries feedbackChecks.set(...) adds for one tab
TabFeedback(tab) ==
  LET rowIndices == TargetRows(updates, tab)
      minRow == Min(rowIndices)
      maxRow == Max(rowIndices)
      feedbackData == ColumnI(tab, minRow, maxRow)
      rowOffset == RowOffset(minRow)
  IN [key \in {Key(tab, r) : r \in rowIndices} |->
        FeedbackAt(feedbackData, key[2] - rowOffset)]

ReadFeedback ==
  /\ pc = "read"
  /\ readQueue # << >>
  /\ LET tab == Head(readQueue) IN
       \/ /\ feedbackChecks' = TabFeedback(tab) @@ feedbackChecks
          /\ UNCHANGED <<errorsLeft, readFailed>>
       \/ \* the read throws: logged, "continue anyway (will try to write)"
          /\ errorsLeft > 0
          /\ errorsLeft' = errorsLeft - 1
          /\ readFailed' = readFailed \cup {tab}
          /\ UNCHANGED feedbackChecks
  /\ readQueue' = Tail(readQueue)
  /\ pc' = IF Tail(readQueue) = << >> THEN "filter" ELSE "read"
  /\ UNCHANGED <<impl, updates, sheetH, sheetI, protectedCells, filteredUpdates,
                 skippedUpdates, cursor, successful, failed, response,
                 callerResult, batchResult, attempts, sheetI0>>
  /\ UNCHANGED notWrite

(***************************************************************************)
(* batchUpdateFeedback: the precedence filter                              *)
(***************************************************************************)
\* a mutant of ExistingFeedback: the feedback of the cell as the sheet holds it
ExistingFeedback_ofSheet(u) == sheetI[u.tabName][u.rowIndex]

\* feedbackChecks.get(key) || ''
ExistingFeedback(u) ==
  IF Key(u.tabName, u.rowIndex) \in DOMAIN feedbackChecks
    THEN feedbackChecks[Key(u.tabName, u.rowIndex)] ELSE EmptyText

IsAppliedUrl(u) == u.sourceColumn = "G" \/ Includes(u.feedback, AppliedUrlMark)

ShouldSkip(u) == IsAppliedUrl(u) /\ Includes(ExistingFeedback(u), JobUrlMark)

RECURSIVE SelectIdx(_, _)
\* the indices i of 1..n, in order, with pred[i]
SelectIdx(n, pred) ==
  IF n = 0 THEN << >>
  ELSE IF pred[n] THEN Append(SelectIdx(n - 1, pred), n) ELSE SelectIdx(n - 1, pred)

FilterUpdates ==
  /\ pc = "filter"
  /\ LET skip == [i \in DOMAIN updates |-> ShouldSkip(updates[i])] IN
       /\ skippedUpdates' = SelectIdx(Len(updates), skip)
       /\ filteredUpdates' = SelectIdx(Len(updates), [i \in DOMAIN updates |-> ~skip[i]])
  /\ pc' = "batch"
  /\ UNCHANGED <<impl, updates, sheetH, sheetI, protectedCells, readQueue,
                 feedbackChecks, cursor, successful, failed, response,
                 callerResult, batchResult, attempts, errorsLeft, readFailed,
                 sheetI0>>
  /\ UNCHANGED notWrite

(***************************************************************************)
(* batchUpdateFeedback: the batch write                                    *)
(***************************************************************************)
Cell(u, col) == <<u.tabName, u.rowIndex, col>>

\* the value an update writes to a column
ValueOf(u, col) == IF col = "H" THEN "FALSE" ELSE u.feedback

RECURSIVE ApplyAll(_, _, _, _)
\* the column `col` after the writes of the updates at indices idxs, in order
ApplyAll(sheet, us, idxs, col) ==
  IF idxs = << >> THEN sheet
  ELSE LET u == us[Head(idxs)] IN
       ApplyAll([sheet EXCEPT ![u.tabName][u.rowIndex] = ValueOf(u, col)],
                us, Tail(idxs), col)

RECURSIVE BatchLog(_)
BatchLog(idxs) ==
  IF idxs = << >> THEN << >>
  ELSE << [idx |-> Head(idxs), col |-> "H", result |-> "ok", via |-> "batch"],
          [idx |-> Head(idxs), col |-> "I", result |-> "ok", via |-> "batch"] >>
       \o BatchLog(Tail(idxs))

\* the cells of valueUpdates
BatchCells ==
  { Cell(updates[filteredUpdates[k]], col) : k \in DOMAIN filteredUpdates, col \in {"H", "I"} }

\* res.json of the batch path
BatchResponse ==
  IF impl = "legacy" THEN [status |-> 200, success |-> TRUE]
  ELSE [status |-> 200, success |-> TRUE, skipped |-> Len(skippedUpdates),
        total |-> Len(updates), updated |-> Len(filteredUpdates)]

\* the handler's outer catch: an error that left the case reaches the client as 500
ErrorResponse == [status |-> 500, success |-> FALSE]

\* a mutant of FallsBack: every rejected batch falls back
FallsBack_any(batchError) == TRUE

\* if (batchError.message && batchError.message.includes('protected'))
FallsBack(batchError) == batchError = "protected"

\* a mutant of WritesMayStart: the batch is sent while the reads and the
\* filter are still to come
WritesMayStart_early == pc \in {"read", "filter", "batch"}

\* the batch write follows the reads and the filter
WritesMayStart == pc = "batch"

BatchUpdate ==
  /\ WritesMayStart
  /\ \/ \* the batch is accepted: every cell of valueUpdates is written
        /\ BatchCells \cap protectedCells = {}
        /\ sheetH' = ApplyAll(sheetH, updates, filteredUpdates, "H")
        /\ sheetI' = ApplyAll(sheetI, updates, filteredUpdates, "I")
        /\ attempts' = attempts \o BatchLog(filteredUpdates)
        /\ batchResult' = "ok"
        /\ response' = BatchResponse
        /\ pc' = "responded"
        /\ UNCHANGED errorsLeft
     \/ \* the batch is rejected, nothing is written
        /\ \E batchError \in {"protected", "error"} :
             /\ batchError = "protected" => BatchCells \cap protectedCells # {}
             /\ batchError = "error" => errorsLeft > 0
             /\ errorsLeft' = IF batchError = "error" THEN errorsLeft - 1 ELSE errorsLeft
             /\ batchResult' = batchError
             /\ IF FallsBack(batchError)
                  THEN /\ pc' = "fallback"
                       /\ UNCHANGED response
                  ELSE /\ pc' = "responded"
                       /\ response' = ErrorResponse
        /\ UNCHANGED <<sheetH, sheetI, attempts>>
  /\ UNCHANGED <<impl, updates, protectedCells, readQueue, feedbackChecks,
                 filteredUpdates, skippedUpdates, cursor, successful, failed,
                 callerResult, readFailed, sheetI0>>
  /\ UNCHANGED notWrite

(***************************************************************************)
(* batchUpdateFeedback: the cell-by-cell fallback                          *)
(***************************************************************************)
\* the list the fallback loop iterates
FallbackList == IF impl = "server" THEN filteredUpdates ELSE AllOf(updates)

\* the results sheets.spreadsheets.values.update can have on one cell
WriteResults(cell) ==
  (IF cell \in protectedCells THEN {"protected"} ELSE {"ok"})
    \cup (IF errorsLeft > 0 THEN {"error"} ELSE {})

ProtectedReason(col) ==
  IF col = "H" THEN "Column H (Approved) is protected"
  ELSE "Column I (Feedback) is protected"

Failure(idx, reason) ==
  [idx |-> idx, tabName |-> updates[idx].tabName,
   rowIndex |-> updates[idx].rowIndex, reason |-> reason]

Attempt(idx, col, result) ==
  [idx |-> idx, col |-> col, result |-> result, via |-> "single"]

\* what the inner and outer catch of one iteration do with the result of a write
\* that did not succeed
OnWriteFailure(idx, col, result) ==
  IF result = "protected"
    THEN Append(failed, Failure(idx, ProtectedReason(col)))  \* failed.push; continue
    ELSE Append(failed, Failure(idx, "error.message"))       \* throw; catch (error)

\* a mutant of NextCursor: a protection rejection ends the loop
NextCursor_break(result) ==
  IF result = "protected" THEN Len(FallbackList) + 1 ELSE cursor + 1

\* where the loop goes after the writes of one update: `continue`, the end of
\* the body and the outer catch all lead to the next update
NextCursor(result) == cursor + 1

UpdateIndividually ==
  /\ pc = "fallback"
  /\ cursor <= Len(FallbackList)
  /\ LET idx == FallbackList[cursor]
         u == updates[idx]
     IN \E hRes \in WriteResults(Cell(u, "H")) :
          IF hRes # "ok"
            THEN /\ failed' = OnWriteFailure(idx, "H", hRes)
                 /\ attempts' = Append(attempts, Attempt(idx, "H", hRes))
                 /\ errorsLeft' = IF hRes = "error" THEN errorsLeft - 1 ELSE errorsLeft
                 /\ cursor' = NextCursor(hRes)
                 /\ UNCHANGED <<sheetH, sheetI, successful>>
            ELSE /\ sheetH' = [sheetH EXCEPT ![u.tabName][u.rowIndex] = "FALSE"]
                 /\ \E iRes \in WriteResults(Cell(u, "I")) :
                      /\ attempts' = attempts \o <<Attempt(idx, "H", "ok"),
                                                   Attempt(idx, "I", iRes)>>
                      /\ errorsLeft' = IF iRes = "error" THEN errorsLeft - 1 ELSE errorsLeft
                      /\ cursor' = NextCursor(iRes)
                      /\ IF iRes # "ok"
                           THEN /\ failed' = OnWriteFailure(idx, "I", iRes)
                                /\ UNCHANGED <<sheetI, successful>>
                           ELSE /\ sheetI' = [sheetI EXCEPT ![u.tabName][u.rowIndex] = u.feedback]
                                /\ successful' = Append(successful, idx)
                                /\ UNCHANGED failed
  /\ UNCHANGED <<impl, updates, protectedCells, pc, readQueue, feedbackChecks,
                 filteredUpdates, skippedUpdates, response, callerResult,
                 batchResult, readFailed, sheetI0>>
  /\ UNCHANGED notWrite

\* res.status(207).json / res.json after the loop
FallbackResponse ==
  IF impl = "legacy"
    THEN IF Len(failed) > 0
           THEN [status |-> 207, success |-> TRUE, partial |-> TRUE,
                 successful |-> Len(successful), failed |-> Len(failed),
                 error |-> TRUE]
           ELSE [status |-> 200, success |-> TRUE, updated |-> Len(successful)]
    ELSE LET allSkipped == skippedUpdates \o failed IN
         IF Len(allSkipped) > 0
           THEN [status |-> 207, success |-> TRUE, partial |-> TRUE,
                 successful |-> Len(successful), failed |-> Len(allSkipped),
                 skipped |-> Len(skippedUpdates), error |-> Len(failed) > 0]
           ELSE [status |-> 200, success |-> TRUE, updated |-> Len(successful),
                 skipped |-> Len(skippedUpdates)]

FallbackRespond ==
  /\ pc = "fallback"
  /\ cursor > Len(FallbackList)
  /\ response' = FallbackResponse
  /\ pc' = "responded"
  /\ UNCHANGED <<impl, updates, sheetH, sheetI, protectedCells, readQueue,
                 feedbackChecks, filteredUpdates, skippedUpdates, cursor,
                 successful, failed, callerResult, batchResult, attempts,
                 errorsLeft, readFailed, sheetI0>>
  /\ UNCHANGED notWrite

(***************************************************************************)
(* The spreadsheet owner removes the protection from columns H and I, as   *)
(* the client's message asks.  Before the batch write this is the same as  *)
(* starting with no protected cell, and after some rows of the fallback    *)
(* the same as starting with those rows protected only, so the step is     *)
(* taken between the rejected batch and the first cell write.              *)
(***************************************************************************)
RemoveProtection ==
  /\ pc = "fallback"
  /\ cursor = 1
  /\ protectedCells # {}
  /\ protectedCells' = {}
  /\ UNCHANGED <<impl, updates, sheetH, sheetI, pc, readQueue, feedbackChecks,
                 filteredUpdates, skippedUpdates, cursor, successful, failed,
                 response, callerResult, batchResult, attempts, errorsLeft,
                 readFailed, sheetI0>>
  /\ UNCHANGED notWrite

(***************************************************************************)
(* The client: apiCall and handleMarkDuplicates                            *)
(***************************************************************************)
\* apiCall: what the call does with the response
ApiCall(resp) ==
  IF resp.status = 207 /\ resp.partial THEN "throw partial"
  ELSE IF ~(200 <= resp.status /\ resp.status <= 299) THEN "throw"   \* !response.ok
  ELSE IF ~resp.success THEN "throw"
  ELSE "return"

\* handleMarkDuplicates: the try around batchUpdateFeedback and its catches
HandleMarkResult(outcome) ==
  IF outcome = "return" THEN "success"
  ELSE IF outcome = "throw partial" THEN "partial"
  ELSE "error"

ClientReceive ==
  /\ pc = "responded"
  /\ callerResult' = HandleMarkResult(ApiCall(response))
  /\ pc' = "done"
  /\ UNCHANGED <<impl, updates, sheetH, sheetI, protectedCells, readQueue,
                 feedbackChecks, filteredUpdates, skippedUpdates, cursor,
                 successful, failed, response, batchResult, attempts,
                 errorsLeft, readFailed, sheetI0>>
  /\ UNCHANGED notWrite

WriteNext ==
  \/ ReadFeedback
  \/ FilterUpdates
  \/ BatchUpdate
  \/ UpdateIndividually
  \/ FallbackRespond
  \/ RemoveProtection
  \/ ClientReceive

SpecWrite == WriteInit /\ [][WriteNext]_vars

(***************************************************************************)
(* The fetch: getJobUrlsFromTabs and getAllJobUrls                         *)
(*                                                                         *)
(* A cell is a sequence of characters, a row a sequence of cells A, B, ... *)
(* that ends at its last filled cell (JS row[k] is row[k + 1] here).       *)
(***************************************************************************)
FetchTabs == {"t1", "t2", "t3"}
\* the tabs of the spreadsheet, in storage order (sheets.spreadsheets.get)
SheetTabs == <<"t1", "t2", "t3">>

Space == " "

RECURSIVE TrimStart(_)
TrimStart(str) ==
  IF str # << >> /\ Head(str) = Space THEN TrimStart(Tail(str)) ELSE str

RECURSIVE TrimEnd(_)
TrimEnd(str) ==
  IF str # << >> /\ str[Len(str)] = Space
    THEN TrimEnd(SubSeq(str, 1, Len(str) - 1)) ELSE str

\* String.prototype.trim
Trim(str) == TrimEnd(TrimStart(str))

\* (row[k] && row[k].trim()) || ''
Field(row, k) == IF k + 1 \in DOMAIN row THEN Trim(row[k + 1]) ELSE << >>

\* a mutant of SameUrl: the two fields are never taken for the same link
SameUrl_never(appliedUrl, jobUrl) == FALSE

\* appliedUrl.trim() !== jobUrl.trim(), negated
SameUrl(appliedUrl, jobUrl) == Trim(appliedUrl) = Trim(jobUrl)

\* the entries the loop body pushes for data[i]
RowUrls(tabName, row, i) ==
  IF row = << >> THEN << >>              \* if (!row || row.length === 0) continue
  ELSE
    LET jobUrl == Field(row, 5)
        appliedUrl == Field(row, 6)
        Entry(url, col) ==
          [url |-> Trim(url), tabName |-> tabName, rowIndex |-> i + 1,
           position |-> Trim(Field(row, 4)), date |-> Trim(Field(row, 0)),
           no |-> Trim(Field(row, 1)), companyName |-> Trim(Field(row, 3)),
           sourceColumn |-> col]
    IN (IF jobUrl # << >> /\ Trim(jobUrl) # << >>
          THEN <<Entry(jobUrl, "F")>> ELSE << >>)
       \o
       (IF appliedUrl # << >> /\ Trim(appliedUrl) # << >>
             /\ ~SameUrl(appliedUrl, jobUrl)
          THEN <<Entry(appliedUrl, "G")>> ELSE << >>)

\* the index the row loop starts at: for (let i = 1; ...)
FirstDataIndex == 1

RECURSIVE UrlsFrom(_, _, _)
\* the loop for (let i = from; i < data.length; i++)
UrlsFrom(tabName, data, i) ==
  IF i >= Len(data) THEN << >>
  ELSE RowUrls(tabName, data[i + 1], i) \o UrlsFrom(tabName, data, i + 1)

\* tabUrls of one tab
TabUrls(tabName, data) == UrlsFrom(tabName, data, FirstDataIndex)

(***************************************************************************)
(* The spreadsheets a fetch may find                                       *)
(***************************************************************************)
FieldValues ==
  { << >>, <<Space>>, <<"a">>, <<Space, "a">>, <<"a", Space>>, <<"b">> }

MkRow(f, g) == << <<"d">>, <<"n">>, << >>, <<"c">>, <<"p">>, f, g >>

HeaderRow == MkRow(<<"J">>, <<"A">>)

RowValues ==
  { << >> } \cup { SubSeq(MkRow(f, << >>), 1, 6) : f \in FieldValues }
    \cup { MkRow(f, g) : f \in FieldValues, g \in FieldValues \ {<< >>} }

\* t1 holds the header and one row, t2 an empty row before its data row,
\* t3 the row after a fixed one
SheetWith(row) ==
  [t \in FetchTabs |->
     IF t = "t1" THEN <<HeaderRow, row>>
     ELSE IF t = "t2" THEN <<HeaderRow, << >>, row>>
     ELSE <<HeaderRow, MkRow(<<"b">>, <<"a">>), row>>]

TabNameLists == UNION { [1..n -> FetchTabs] : n \in 0..MaxTabNames }

\* no write request is in progress
WriteIdle ==
  /\ impl = "server"
  /\ updates = << >>
  /\ sheetH = [t \in Tabs |-> [r \in GridRows |-> "TRUE"]]
  /\ sheetI = [t \in Tabs |-> [r \in GridRows |-> EmptyText]]
  /\ sheetI0 = sheetI
  /\ protectedCells = {}
  /\ readQueue = << >>
  /\ pc = "idle"
  /\ feedbackChecks = << >>
  /\ filteredUpdates = << >>
  /\ skippedUpdates = << >>
  /\ cursor = 1
  /\ successful = << >>
  /\ failed = << >>
  /\ response = NoResponse
  /\ callerResult = "none"
  /\ batchResult = "none"
  /\ attempts = << >>
  /\ errorsLeft = 0
  /\ readFailed = {}

Pending(names) == [i \in 1..Len(names) |-> "pending"]
NoResults(names) == [i \in 1..Len(names) |-> << >>]

FetchInit ==
  /\ ManagerIdle
  /\ WriteIdle
  /\ UtilsIdle
  /\ BidderIdle
  /\ fetchAction \in {"getJobUrlsFromTabs", "getAllJobUrls"}
  /\ sheetData \in { SheetWith(row) : row \in RowValues }
  /\ IF fetchAction = "getJobUrlsFromTabs"
       THEN /\ tabNames \in TabNameLists
            /\ fpc = "fetch"
       ELSE /\ tabNames = << >>
            /\ fpc = "list"
  /\ tabStatus = Pending(tabNames)
  /\ tabResults = NoResults(tabNames)
  /\ allUrls = << >>
  /\ fetchCursor = 1
  /\ fetchResponse = NoResponse

\* res.json({ success: true, data: allUrls })
DataResponse(data) == [status |-> 200, success |-> TRUE, data |-> data]

\* getJobUrlsFromTabs: the tabNames check
RejectTabNames ==
  /\ fpc = "fetch"
  /\ fetchAction = "getJobUrlsFromTabs"
  /\ tabNames = << >>
  /\ fetchResponse' = [status |-> 400, success |-> FALSE]
  /\ fpc' = "done"
  /\ UNCHANGED <<fetchAction, tabNames, sheetData, tabStatus, tabResults, allUrls,
                 fetchCursor>>
  /\ UNCHANGED notFetch

\* a mutant of FetchTab: a failed read rejects Promise.all and the handler's
\* outer catch answers 500
FetchTab_throws ==
  /\ fpc = "fetch"
  /\ fetchAction = "getJobUrlsFromTabs"
  /\ \E i \in DOMAIN tabNames :
       /\ tabStatus[i] = "pending"
       /\ \/ /\ tabStatus' = [tabStatus EXCEPT ![i] = "ok"]
             /\ tabResults' = [tabResults EXCEPT
                                 ![i] = TabUrls(tabNames[i], sheetData[tabNames[i]])]
             /\ UNCHANGED <<fetchResponse, fpc>>
          \/ /\ tabStatus' = [tabStatus EXCEPT ![i] = "failed"]
             /\ fetchResponse' = [status |-> 500, success |-> FALSE]
             /\ fpc' = "done"
             /\ UNCHANGED tabResults
  /\ UNCHANGED <<fetchAction, tabNames, sheetData, allUrls, fetchCursor>>
  /\ UNCHANGED notFetch

\* getJobUrlsFromTabs: the promise of tab i settles; the reads run concurrently,
\* so any pending one may settle next
FetchTab ==
  /\ fpc = "fetch"
  /\ fetchAction = "getJobUrlsFromTabs"
  /\ \E i \in DOMAIN tabNames :
       /\ tabStatus[i] = "pending"
       /\ \/ /\ tabStatus' = [tabStatus EXCEPT ![i] = "ok"]
             /\ tabResults' = [tabResults EXCEPT
                                 ![i] = TabUrls(tabNames[i], sheetData[tabNames[i]])]
          \/ \* values.get throws: catch (error) { ...; return [] }
             /\ tabStatus' = [tabStatus EXCEPT ![i] = "failed"]
             /\ tabResults' = [tabResults EXCEPT ![i] = << >>]
  /\ UNCHANGED <<fetchAction, tabNames, sheetData, allUrls, fetchCursor,
                 fetchResponse, fpc>>
  /\ UNCHANGED notFetch

RECURSIVE Flatten(_)
\* tabResults.forEach(tabUrls => allUrls.push(...tabUrls))
Flatten(results) ==
  IF results = << >> THEN << >> ELSE Head(results) \o Flatten(Tail(results))

\* getJobUrlsFromTabs: await Promise.all(tabPromises), aggregate, respond
JoinTabs ==
  /\ fpc = "fetch"
  /\ fetchAction = "getJobUrlsFromTabs"
  /\ tabNames # << >>
  /\ \A i \in DOMAIN tabNames : tabStatus[i] # "pending"
  /\ allUrls' = Flatten(tabResults)
  /\ fetchResponse' = DataResponse(allUrls')
  /\ fpc' = "done"
  /\ UNCHANGED <<fetchAction, tabNames, sheetData, tabStatus, tabResults,
                 fetchCursor>>
  /\ UNCHANGED notFetch

\* getAllJobUrls: sheets.spreadsheets.get lists the tabs
ListTabs ==
  /\ fpc = "list"
  /\ \/ /\ tabNames' = SheetTabs
        /\ tabStatus' = Pending(SheetTabs)
        /\ tabResults' = NoResults(SheetTabs)
        /\ fpc' = "fetch"
        /\ UNCHANGED fetchResponse
     \/ \* the call throws: the handler's outer catch answers
        /\ fetchResponse' = [status |-> 500, success |-> FALSE]
        /\ fpc' = "done"
        /\ UNCHANGED <<tabNames, tabStatus, tabResults>>
  /\ UNCHANGED <<fetchAction, sheetData, allUrls, fetchCursor>>
  /\ UNCHANGED notFetch

\* getAllJobUrls: one iteration of for (const tabName of tabs)
ReadNextTab ==
  /\ fpc = "fetch"
  /\ fetchAction = "getAllJobUrls"
  /\ fetchCursor <= Len(tabNames)
  /\ LET i == fetchCursor
         tabUrls == TabUrls(tabNames[i], sheetData[tabNames[i]])
     IN \/ /\ tabStatus' = [tabStatus EXCEPT ![i] = "ok"]
           /\ tabResults' = [tabResults EXCEPT ![i] = tabUrls]
           /\ allUrls' = allUrls \o tabUrls
        \/ \* catch (error) { console.error(...) }
           /\ tabStatus' = [tabStatus EXCEPT ![i] = "failed"]
           /\ UNCHANGED <<tabResults, allUrls>>
  /\ fetchCursor' = fetchCursor + 1
  /\ UNCHANGED <<fetchAction, tabNames, sheetData, fetchResponse, fpc>>
  /\ UNCHANGED notFetch

\* getAllJobUrls: return res.json({ success: true, data: allUrls })
RespondAllUrls ==
  /\ fpc = "fetch"
  /\ fetchAction = "getAllJobUrls"
  /\ fetchCursor > Len(tabNames)
  /\ fetchResponse' = DataResponse(allUrls)
  /\ fpc' = "done"
  /\ UNCHANGED <<fetchAction, tabNames, sheetData, tabStatus, tabResults, allUrls,
                 fetchCursor>>
  /\ UNCHANGED notFetch

FetchNext ==
  \/ RejectTabNames
  \/ FetchTab
  \/ JoinTabs
  \/ ListTabs
  \/ ReadNextTab
  \/ RespondAllUrls

SpecFetch == FetchInit /\ [][FetchNext]_vars

(***************************************************************************)
(* Properties of the write cycle (specification SpecWrite)                 *)
(***************************************************************************)
Range(seq) == { seq[k] : k \in DOMAIN seq }

\* update i had a cell written, by the batch or by an individual write
Written(i) == \E k \in DOMAIN attempts : attempts[k].idx = i /\ attempts[k].result = "ok"

\* update i had an individual write attempted
Attempted(i) == \E k \in DOMAIN attempts : attempts[k].idx = i /\ attempts[k].via = "single"

\* update i had an individual write rejected for protection
Rejected(i) ==
  \E k \in DOMAIN attempts : attempts[k].idx = i /\ attempts[k].result = "protected"

\* no individual write failed for another reason than protection
NoOtherError == \A k \in DOMAIN attempts : attempts[k].result # "error"

Responded == pc \in {"responded", "done"}
OutcomeReturned == Responded /\ response.status \in {200, 207}
OnFallbackPath == batchResult = "protected"

\* the existing feedback of the row an update targets, when the request arrived
TargetFeedback(u) == sheetI0[u.tabName][u.rowIndex]

\* C1: a SECONDARY-sourced update whose target row already holds a "- Job Url"
\* feedback is never written, on the batch path and on the fallback path
\* (stated for src/server.js, with every feedback read succeeding).
C1_SecondaryNeverOverwritesPrimary ==
  (impl = "server" /\ readFailed = {}) =>
    \A i \in DOMAIN updates :
      (IsAppliedUrl(updates[i]) /\ Includes(TargetFeedback(updates[i]), JobUrlMark))
        => ~Written(i)

\* C2: the existing feedback the precedence check consults for an update at
\* row r of a tab is the content of cell I of row r of that tab.
C2_ConsultsTargetRow ==
  \A key \in DOMAIN feedbackChecks : feedbackChecks[key] = sheetI0[key[1]][key[2]]

ReportedSucceeded ==
  IF "successful" \in DOMAIN response THEN response.successful ELSE response.updated
ReportedFailed == IF "failed" \in DOMAIN response THEN response.failed ELSE 0
ReportedSkipped == IF "skipped" \in DOMAIN response THEN response.skipped ELSE 0

\* C3: in a returned outcome every input update is in exactly one of succeeded,
\* skipped and failed: a skipped update is neither succeeded nor failed, and the
\* three counts add up to the number of input updates.
C3_EveryUpdateCountedOnce ==
  (OutcomeReturned /\ impl # "legacy") =>
    /\ \A k \in DOMAIN skippedUpdates :
         /\ skippedUpdates[k] \notin Range(successful)
         /\ \A j \in DOMAIN failed : failed[j].idx # skippedUpdates[k]
    /\ ReportedSucceeded + ReportedSkipped + ReportedFailed = Len(updates)

C5_OtherErrorAborts ==
  \A k \in DOMAIN attempts :
    (attempts[k].via = "single" /\ attempts[k].result = "error") =>
      /\ k = Len(attempts)
      /\ \A j \in DOMAIN failed : failed[j].idx # attempts[k].idx
      /\ Responded => response.status = 500
      /\ pc = "done" => callerResult = "error"

\* C6: individual writes are attempted only after the batch was rejected for
\* protection; a batch rejected for another reason leads to no individual write
\* and reaches the caller as a failure.
C6_FallbackOnlyOnProtection ==
  /\ (\E i \in DOMAIN updates : Attempted(i)) => batchResult = "protected"
  /\ pc = "fallback" => batchResult = "protected"
  /\ batchResult = "error" =>
       /\ attempts = << >>
       /\ Responded /\ response = ErrorResponse
       /\ pc = "done" => callerResult = "error"

\* C6 witness: a batch rejected for another reason than protection, although a
\* target cell is protected, has reached the caller
C6_Witness ==
  /\ pc = "done" /\ batchResult = "error" /\ callerResult = "error"
  /\ BatchCells \cap protectedCells # {}

\* C7: a cycle with a non-empty failed list reaches the caller as a partial
\* success, and a cycle with skipped updates and no failed one as a success, on
\* the batch path and on the fallback path.
C7_PartialAndInformational ==
  (pc = "done" /\ response.status \in {200, 207}) =>
    /\ Len(failed) > 0 => callerResult = "partial"
    /\ (Len(skippedUpdates) > 0 /\ Len(failed) = 0) => callerResult = "success"

\* every tab of the request has been read (or its read has failed)
ReadsComplete ==
  /\ readQueue = << >>
  /\ \A i \in DOMAIN updates :
       \/ updates[i].tabName \in readFailed
       \/ Key(updates[i].tabName, updates[i].rowIndex) \in DOMAIN feedbackChecks

\* every update has its skip decision
FilterDone == Range(filteredUpdates) \cup Range(skippedUpdates) = DOMAIN updates

\* a step that attempts a cell write, by the batch or individually
WriteStep == batchResult' # batchResult \/ attempts' # attempts

\* C8: every step that attempts a cell write is taken with all reads of existing
\* feedback complete and every skip decision made, and changes none of them
\* (stated for the versions with the precedence rule).
C8_DecisionsBeforeWrites ==
  [][(WriteStep /\ impl # "legacy") =>
       /\ ReadsComplete
       /\ FilterDone
       /\ UNCHANGED <<feedbackChecks, filteredUpdates, skippedUpdates, readQueue>>]_vars

\* C8 witness: a cycle that skipped an update and wrote another one
C8_Witness ==
  /\ pc = "done" /\ impl = "server"
  /\ skippedUpdates # << >>
  /\ \E i \in DOMAIN updates : Written(i)

(***************************************************************************)
(* Properties of the fetch (specification SpecFetch)                       *)
(***************************************************************************)
\* what each requested tab contributes: its entries if its read succeeded
Contribution(i) ==
  IF tabStatus[i] = "ok" THEN TabUrls(tabNames[i], sheetData[tabNames[i]]) ELSE << >>

\* C9: for a non-empty list of requested tabs, of which any may fail to be read,
\* getJobUrlsFromTabs settles every read, answers with success, and its data are
\* exactly the entries of the tabs whose read succeeded, in request order.
C9_FetchToleratesFailedTabs ==
  (fpc = "done" /\ fetchAction = "getJobUrlsFromTabs" /\ tabNames # << >>) =>
    /\ \A i \in DOMAIN tabNames : tabStatus[i] \in {"ok", "failed"}
    /\ fetchResponse.status = 200 /\ fetchResponse.success
    /\ fetchResponse.data = Flatten([i \in DOMAIN tabNames |-> Contribution(i)])
    /\ \A k \in DOMAIN fetchResponse.data :
         \E i \in DOMAIN tabNames :
           tabStatus[i] = "ok" /\ tabNames[i] = fetchResponse.data[k].tabName

\* C9 witness: a fetch that answered with entries although a requested tab
\* failed before another one was read
C9_Witness ==
  /\ fpc = "done" /\ fetchAction = "getJobUrlsFromTabs"
  /\ \E i, j \in DOMAIN tabNames :
       /\ i < j
       /\ tabStatus[i] = "failed" /\ tabStatus[j] = "ok"
       /\ tabNames[i] # tabNames[j]
       /\ tabResults[j] # << >>
  /\ fetchResponse.data # << >>

\* the raw text of cell k of a row ('' for a cell the row does not have)
RawField(row, k) == IF k + 1 \in DOMAIN row THEN row[k + 1] ELSE << >>

\* how many entries of a list come from spreadsheet row r and column col
CountOf(urls, r, col) ==
  Cardinality({ k \in DOMAIN urls : urls[k].rowIndex = r /\ urls[k].sourceColumn = col })

\* the tabs of the fetch whose read succeeded
FetchedTabs == { i \in DOMAIN tabNames : tabStatus[i] = "ok" }

\* the entries of fetched tab i carry rows 2.. of the tab and never the header
SkipsHeader(i) ==
  \A k \in DOMAIN tabResults[i] :
    /\ tabResults[i][k].tabName = tabNames[i]
    /\ tabResults[i][k].rowIndex \in 2..Len(sheetData[tabNames[i]])

\* C10 as stated: the header row is skipped and each data row yields one PRIMARY
\* entry iff its primary field is non-empty, and one SECONDARY entry iff its
\* secondary field is non-empty and differs textually from the primary field.
C10_EntriesByRawFields ==
  \A i \in FetchedTabs :
    LET data == sheetData[tabNames[i]] IN
    /\ SkipsHeader(i)
    /\ \A r \in 2..Len(data) :
         LET f == RawField(data[r], 5)
             g == RawField(data[r], 6)
         IN /\ CountOf(tabResults[i], r, "F") = (IF f # << >> THEN 1 ELSE 0)
            /\ CountOf(tabResults[i], r, "G") = (IF g # << >> /\ g # f THEN 1 ELSE 0)

\* C10 amended: the same with the fields compared after trimming surrounding
\* whitespace; each entry carries the trimmed text of its field and the 1-based
\* spreadsheet row of its source row.
C10_EntriesByTrimmedFields ==
  \A i \in FetchedTabs :
    LET data == sheetData[tabNames[i]] IN
    /\ SkipsHeader(i)
    /\ \A r \in 2..Len(data) :
         LET f == Trim(RawField(data[r], 5))
             g == Trim(RawField(data[r], 6))
         IN /\ CountOf(tabResults[i], r, "F") = (IF f # << >> THEN 1 ELSE 0)
            /\ CountOf(tabResults[i], r, "G") = (IF g # << >> /\ g # f THEN 1 ELSE 0)
            /\ \A k \in DOMAIN tabResults[i] :
                 tabResults[i][k].rowIndex = r =>
                   tabResults[i][k].url = (IF tabResults[i][k].sourceColumn = "F" THEN f ELSE g)

\* C10 witness: a fetched tab whose row 3 gave a PRIMARY and a SECONDARY entry
\* from fields that carry surrounding whitespace
C10_Witness ==
  \E i \in FetchedTabs :
    /\ CountOf(tabResults[i], 3, "F") = 1
    /\ CountOf(tabResults[i], 3, "G") = 1
    /\ RawField(sheetData[tabNames[i]][3], 5) # Trim(RawField(sheetData[tabNames[i]][3], 5))

\* C27: on the fallback path an update is applied to both cells of its row
\* or to none: the approved flag of a row is FALSE only if the feedback cell
\* of that row was written in the same cycle.
C27_FallbackAtomicPerRow ==
  OnFallbackPath =>
    \A t \in Tabs : \A r \in GridRows :
      sheetH[t][r] = "FALSE" =>
        \E k \in DOMAIN attempts :
          /\ attempts[k].col = "I"
          /\ attempts[k].result = "ok"
          /\ updates[attempts[k].idx].tabName = t
          /\ updates[attempts[k].idx].rowIndex = r

\* the feedback cell of update i was written in this cycle
FeedbackWritten(i) ==
  \E k \in DOMAIN attempts :
    attempts[k].idx = i /\ attempts[k].col = "I" /\ attempts[k].result = "ok"

\* C28: when a cycle has a PRIMARY-sourced and a SECONDARY-sourced update of
\* the same row, in either order, the feedback cell of the row does not end
\* the cycle with the SECONDARY annotation where the PRIMARY one was there
\* before the cycle or was written in it.
C28_SecondaryNotOverPrimaryInCycle ==
  Responded =>
    \A i \in DOMAIN updates : \A j \in DOMAIN updates :
      ( /\ updates[i].tabName = updates[j].tabName
        /\ updates[i].rowIndex = updates[j].rowIndex
        /\ updates[i].sourceColumn = "F"
        /\ updates[j].sourceColumn = "G"
        /\ Includes(TargetFeedback(updates[i]), JobUrlMark) \/ FeedbackWritten(i) )
      => ~Includes(sheetI[updates[j].tabName][updates[j].rowIndex], AppliedUrlMark)

\* C29: a failed read of the existing feedback of a tab does not fail the
\* cycle: no response is sent before the write, the existing feedback of
\* every update of the tab counts as empty, none of them is skipped and all
\* of them are submitted for writing.
C29_FailedReadSkipsNothing ==
  /\ (readFailed # {} /\ pc \in {"read", "filter", "batch"}) => response = NoResponse
  /\ pc \notin {"read", "filter"} =>
       \A i \in DOMAIN updates :
         updates[i].tabName \in readFailed =>
           /\ ExistingFeedback(updates[i]) = EmptyText
           /\ i \in Range(filteredUpdates)
           /\ i \notin Range(skippedUpdates)

\* C29 witness: the read of the tab failed, and a SECONDARY-sourced update
\* of a row that held a "- Job Url" feedback was written
C29_Witness ==
  /\ readFailed = {"t1"}
  /\ Responded
  /\ response.status = 200
  /\ \E i \in DOMAIN updates :
       /\ updates[i].sourceColumn = "G"
       /\ Includes(TargetFeedback(updates[i]), JobUrlMark)
       /\ FeedbackWritten(i)

(***************************************************************************)
(* The duplicate checker utilities (src/src/utils/duplicateChecker.ts).    *)
(*                                                                         *)
(* A URL text is a sequence of tokens: the punctuation of a URL, a scheme  *)
(* with its host ("https://x.co", written in lower or upper case), and     *)
(* words of a path or a query.  A value that is no string is the one-token *)
(* sequence <<"null">>.  Texts carry whitespace at their two ends only.    *)
(***************************************************************************)
Origins == {"https://x.co", "HTTPS://X.CO"}
Punctuation == {Space, "/", "?", "&", "=", "#"}
Words ==
  {"a", "A", "b", "v", "x", "id", "ID", "jobId", "jobid", "utm_source", "utm_id",
   "ref", "k"}
UrlChars == Origins \cup Punctuation \cup Words

NotAString == <<"null">>

\* typeof url === 'string'
IsString(url) == \A i \in DOMAIN url : url[i] \in UrlChars

\* String.prototype.toLowerCase, token by token
LowerChar(c) ==
  CASE c = "HTTPS://X.CO" -> "https://x.co"
    [] c = "A" -> "a"
    [] c = "ID" -> "id"
    [] c = "jobId" -> "jobid"
    [] OTHER -> c

ToLowerCase(str) == [i \in DOMAIN str |-> LowerChar(str[i])]

\* the position of the first c in str, Len(str) + 1 when there is none
RECURSIVE IndexFrom(_, _, _)
IndexFrom(str, c, i) ==
  IF i > Len(str) \/ str[i] = c THEN i ELSE IndexFrom(str, c, i + 1)

IndexOf(str, c) == IndexFrom(str, c, 1)

\* String.prototype.split(sep)
RECURSIVE Split(_, _)
Split(str, sep) ==
  LET i == IndexOf(str, sep) IN
  IF i > Len(str) THEN <<str>>
  ELSE <<SubSeq(str, 1, i - 1)>> \o Split(SubSeq(str, i + 1, Len(str)), sep)

\* new URL(text) succeeds: the text starts with a scheme and a host
Parses(text) == text # << >> /\ text[1] \in Origins

\* the text of a URL before its fragment, without scheme and host
BeforeHash(text) == SubSeq(text, 2, IndexOf(text, "#") - 1)

\* urlObj.pathname
Pathname(text) ==
  LET rest == BeforeHash(text)
      path == SubSeq(rest, 1, IndexOf(rest, "?") - 1)
  IN  IF path = << >> THEN <<"/">> ELSE path

\* urlObj.search without its "?"
Search(text) ==
  LET rest == BeforeHash(text) IN SubSeq(rest, IndexOf(rest, "?") + 1, Len(rest))

\* one entry of new URLSearchParams(search)
Param(piece) ==
  LET i == IndexOf(piece, "=") IN
  [key |-> SubSeq(piece, 1, i - 1), value |-> SubSeq(piece, i + 1, Len(piece))]

\* params.entries(): the pieces between "&", the empty ones dropped
RECURSIVE ParamsOf(_)
ParamsOf(pieces) ==
  IF pieces = << >> THEN << >>
  ELSE IF Head(pieces) = << >> THEN ParamsOf(Tail(pieces))
  ELSE <<Param(Head(pieces))>> \o ParamsOf(Tail(pieces))

SearchParams(search) == IF search = << >> THEN << >> ELSE ParamsOf(Split(search, "&"))

importantParams ==
  {<<"jk">>, <<"id">>, <<"jobId">>, <<"job_id">>, <<"positionId">>,
   <<"position_id">>, <<"req">>, <<"reqid">>}

\* a mutant of trackingParams: utm_source is not among them
trackingParams_noUtmSource ==
  {<<"utm_medium">>, <<"utm_campaign">>, <<"utm_term">>, <<"utm_content">>,
   <<"ref">>, <<"source">>, <<"fbclid">>, <<"gclid">>, <<"msclkid">>, <<"_ga">>,
   <<"_gid">>}

trackingParams ==
  {<<"utm_source">>, <<"utm_medium">>, <<"utm_campaign">>, <<"utm_term">>,
   <<"utm_content">>, <<"ref">>, <<"source">>, <<"fbclid">>, <<"gclid">>,
   <<"msclkid">>, <<"_ga">>, <<"_gid">>}

\* the test of the loop over params.entries()
KeepsParam(param) ==
  LET lowerKey == ToLowerCase(param.key) IN
  \/ lowerKey \in importantParams
  \/ /\ lowerKey \notin trackingParams
     /\ param.value # << >>
     /\ Trim(param.value) # << >>

RECURSIVE FilteredParams(_)
FilteredParams(params) ==
  IF params = << >> THEN << >>
  ELSE IF KeepsParam(Head(params))
         THEN <<Head(params)>> \o FilteredParams(Tail(params))
         ELSE FilteredParams(Tail(params))

\* filteredParams.toString()
RECURSIVE QueryString(_)
QueryString(params) ==
  IF params = << >> THEN << >>
  ELSE LET one == Head(params).key \o <<"=">> \o Head(params).value IN
       IF Tail(params) = << >> THEN one
       ELSE one \o <<"&">> \o QueryString(Tail(params))

\* pathname without its trailing slash
StripPathSlash(pathname) ==
  IF pathname[Len(pathname)] = "/" /\ Len(pathname) > 1
    THEN SubSeq(pathname, 1, Len(pathname) - 1) ELSE pathname

\* the try block of normalizeUrl
NormalizeParsed(text) ==
  LET pathname == StripPathSlash(Pathname(text))
      queryString == QueryString(FilteredParams(SearchParams(Search(text))))
      normalizedUrl == <<LowerChar(text[1])>> \o pathname
                       \o (IF queryString # << >> THEN <<"?">> \o queryString ELSE << >>)
  IN  ToLowerCase(normalizedUrl)

\* the catch block of normalizeUrl: .replace(/\/$/, '')
NormalizeUnparsed(text) ==
  LET lower == ToLowerCase(text) IN
  IF lower # << >> /\ lower[Len(lower)] = "/"
    THEN SubSeq(lower, 1, Len(lower) - 1) ELSE lower

normalizeUrl(url) ==
  IF url = << >> \/ ~IsString(url) THEN << >>
  ELSE IF Parses(Trim(url)) THEN NormalizeParsed(Trim(url))
  ELSE NormalizeUnparsed(Trim(url))

areUrlsDuplicate(url1, url2) == normalizeUrl(url1) = normalizeUrl(url2)

(***************************************************************************)
(* Tab names.  A tab name is a sequence of tokens: "-", "/", a month and   *)
(* day ("01/08"), a four-digit year, or another word.  A date is read as   *)
(* the number of its day, counted from 01/01/2023.                         *)
(***************************************************************************)
MonthDays == {"01/01", "01/08", "01/15"}
Years == {"2023", "2024"}

\* new Date().getFullYear()
currentYear == "2024"

DayOf(monthDay) ==
  CASE monthDay = "01/01" -> 1 [] monthDay = "01/08" -> 8 [] OTHER -> 15

YearStart(year) == IF year = "2023" THEN 0 ELSE 365

InvalidDate == [valid |-> FALSE, time |-> 0]

\* parse(dateString, 'MM/dd/yyyy', new Date())
parseDate(dateString) ==
  IF /\ Len(dateString) = 3
     /\ dateString[1] \in MonthDays
     /\ dateString[2] = "/"
     /\ dateString[3] \in Years
    THEN [valid |-> TRUE, time |-> YearStart(dateString[3]) + DayOf(dateString[1])]
    ELSE InvalidDate

\* str.match(/\d{4}$/)
EndsWithYear(str) == str # << >> /\ str[Len(str)] \in Years

\* the year of the current date is appended to a part that has none
WithYear(str) == IF EndsWithYear(str) THEN str ELSE str \o <<"/", currentYear>>

NoRange == [ok |-> FALSE, start |-> 0, end |-> 0]

parseTabRange(tabName) ==
  LET parts == Split(tabName, "-") IN
  IF Len(parts) # 2 THEN NoRange
  ELSE LET start == parseDate(WithYear(Trim(parts[1])))
           end == parseDate(WithYear(Trim(parts[2])))
       IN  IF ~start.valid \/ ~end.valid THEN NoRange
           ELSE [ok |-> TRUE, start |-> start.time, end |-> end.time]

(***************************************************************************)
(* sortTabsByDate (src/src/utils/jobAnalyzer.ts)                           *)
(***************************************************************************)
\* the comparator of sortTabsByDate
TabDateOrder(a, b) ==
  LET rangeA == parseTabRange(a)
      rangeB == parseTabRange(b)
  IN  IF ~rangeA.ok \/ ~rangeB.ok THEN 0 ELSE rangeA.start - rangeB.start

\* the place of a name in a sorted list: behind every name that is not after it
RECURSIVE InsertTab(_, _)
InsertTab(sorted, x) ==
  IF sorted # << >> /\ TabDateOrder(sorted[Len(sorted)], x) > 0
    THEN Append(InsertTab(SubSeq(sorted, 1, Len(sorted) - 1), x), sorted[Len(sorted)])
    ELSE Append(sorted, x)

\* tabNames.sort(comparator): a stable sort
RECURSIVE sortTabsByDate(_)
sortTabsByDate(names) ==
  IF names = << >> THEN << >>
  ELSE InsertTab(sortTabsByDate(SubSeq(names, 1, Len(names) - 1)), names[Len(names)])

(***************************************************************************)
(* findDuplicates.  The Map it returns is the sequence of its groups in    *)
(* the order of insertion of their keys.                                   *)
(***************************************************************************)
\* the record findDuplicates pushes for an entry
DuplicateInfo(entry) ==
  [url |-> entry.url, tabName |-> entry.tabName, rowIndex |-> entry.rowIndex,
   position |-> entry.position, isDuplicate |-> FALSE]

\* the keys of urlMap, in the order of their insertion
RECURSIVE UrlMapKeys(_, _)
UrlMapKeys(entries, keys) ==
  IF entries = << >> THEN keys
  ELSE LET normalized == normalizeUrl(Head(entries).url) IN
       IF normalized = << >> \/ \E k \in DOMAIN keys : keys[k] = normalized
         THEN UrlMapKeys(Tail(entries), keys)
         ELSE UrlMapKeys(Tail(entries), Append(keys, normalized))

\* urlMap.get(normalized)
RECURSIVE UrlMapGet(_, _)
UrlMapGet(entries, normalized) ==
  IF entries = << >> THEN << >>
  ELSE IF normalizeUrl(Head(entries).url) = normalized
         THEN <<DuplicateInfo(Head(entries))>> \o UrlMapGet(Tail(entries), normalized)
         ELSE UrlMapGet(Tail(entries), normalized)

\* a mutant of EntryOrder: the row decides alone
EntryOrder_rowOnly(a, b) == a.rowIndex - b.rowIndex

\* the comparator of the sort
EntryOrder(a, b) ==
  LET tabA == parseTabRange(a.tabName)
      tabB == parseTabRange(b.tabName)
  IN  IF tabA.ok /\ tabB.ok /\ tabA.start - tabB.start # 0
        THEN tabA.start - tabB.start
        ELSE a.rowIndex - b.rowIndex

\* the place of x in a sorted list: behind every entry that is not after it
RECURSIVE InsertSorted(_, _)
InsertSorted(sorted, x) ==
  IF sorted # << >> /\ EntryOrder(sorted[Len(sorted)], x) > 0
    THEN Append(InsertSorted(SubSeq(sorted, 1, Len(sorted) - 1), x), sorted[Len(sorted)])
    ELSE Append(sorted, x)

\* a mutant of SortEntries: the bucket keeps the order of the input
SortEntries_none(entries) == entries

\* Array.prototype.sort with the comparator: a stable sort
RECURSIVE SortEntries(_)
SortEntries(entries) ==
  IF entries = << >> THEN << >>
  ELSE InsertSorted(SortEntries(SubSeq(entries, 1, Len(entries) - 1)),
                    entries[Len(entries)])

\* sortedEntries.map((entry, index) => ({ ...entry, isDuplicate: index > 0 }))
MarkDuplicates(sorted) ==
  [index \in DOMAIN sorted |-> [sorted[index] EXCEPT !.isDuplicate = index > 1]]

\* a mutant of EmitsGroup: every key gets a group
EmitsGroup_always(entries) == TRUE

\* if (entries.length > 1)
EmitsGroup(entries) == Len(entries) > 1

RECURSIVE DuplicateGroups(_, _)
DuplicateGroups(entries, keys) ==
  IF keys = << >> THEN << >>
  ELSE LET bucket == UrlMapGet(entries, Head(keys)) IN
       IF EmitsGroup(bucket)
         THEN <<[key |-> Head(keys), entries |-> MarkDuplicates(SortEntries(bucket))]>>
              \o DuplicateGroups(entries, Tail(keys))
         ELSE DuplicateGroups(entries, Tail(keys))

findDuplicates(entries) == DuplicateGroups(entries, UrlMapKeys(entries, << >>))

(***************************************************************************)
(* handleMarkDuplicates of the bid manager (DuplicateChecker.tsx): the     *)
(* updates it builds from the groups on display.  A property a record does *)
(* not have reads as undefined.                                            *)
(***************************************************************************)
\* entry.sourceColumn
SourceColumnOf(entry) ==
  IF "sourceColumn" \in DOMAIN entry THEN entry.sourceColumn ELSE "undefined"

\* the text built for a duplicate entry: the marker of its source type
FeedbackFor(entry) ==
  IF SourceColumnOf(entry) = "G" THEN AppliedUrlText ELSE JobUrlText

\* the updates of one group: one for each entry after the first whose tab
\* is among the checked tabs (checkedTabs.includes(entry.tabName))
RECURSIVE GroupUpdates(_, _, _)
GroupUpdates(entries, i, tabs) ==
  IF i > Len(entries) THEN << >>
  ELSE (IF entries[i].tabName \in tabs
          THEN <<[tabName |-> entries[i].tabName, rowIndex |-> entries[i].rowIndex,
                  feedback |-> FeedbackFor(entries[i]),
                  sourceColumn |-> SourceColumnOf(entries[i])]>>
          ELSE << >>)
       \o GroupUpdates(entries, i + 1, tabs)

\* the loop over duplicates.entries()
RECURSIVE MarkUpdates(_, _)
MarkUpdates(groups, tabs) ==
  IF groups = << >> THEN << >>
  ELSE GroupUpdates(Head(groups).entries, 2, tabs)
       \o MarkUpdates(Tail(groups), tabs)

(***************************************************************************)
(* checkUrlDuplicate                                                       *)
(***************************************************************************)
NotDuplicate == [isDuplicate |-> FALSE]

\* a mutant of FirstMatch: the scan goes on to the last match
RECURSIVE FirstMatch_last(_, _)
FirstMatch_last(normalized, existingEntries) ==
  IF existingEntries = << >> THEN NotDuplicate
  ELSE LET entry == existingEntries[Len(existingEntries)] IN
       IF normalizeUrl(entry.url) = normalized
         THEN [isDuplicate |-> TRUE,
               duplicateInfo |-> [tabName |-> entry.tabName, position |-> entry.position]]
         ELSE FirstMatch_last(normalized, SubSeq(existingEntries, 1, Len(existingEntries) - 1))

\* the loop of checkUrlDuplicate
RECURSIVE FirstMatch(_, _)
FirstMatch(normalized, existingEntries) ==
  IF existingEntries = << >> THEN NotDuplicate
  ELSE LET entry == Head(existingEntries) IN
       IF normalizeUrl(entry.url) = normalized
         THEN [isDuplicate |-> TRUE,
               duplicateInfo |-> [tabName |-> entry.tabName, position |-> entry.position]]
         ELSE FirstMatch(normalized, Tail(existingEntries))

checkUrlDuplicate(url, existingEntries) == FirstMatch(normalizeUrl(url), existingEntries)

(***************************************************************************)
(* The calls of the utilities: the entries are those of a few rows of four *)
(* tabs, two with a name that parses and two without.                      *)
(***************************************************************************)
UrlA == <<"https://x.co", "/", "a">>
UrlA2 == <<"HTTPS://X.CO", "/", "A", "/">>
UrlB == <<"b", "/">>
UrlInputs == {<< >>, NotAString, <<Space>>, UrlA, UrlA2, UrlB}

Week1 == <<"01/08", "/", "2024", "-", "01/15", "/", "2024">>
Week0 == <<"01/01", "-", "01/08">>
Unnamed1 == <<"a">>
Unnamed2 == <<"01/01", "/", "2023">>
EntryRows == {4, 7}

EntryOf(url, tabName, rowIndex) ==
  [url |-> url, tabName |-> tabName, rowIndex |-> rowIndex,
   position |-> IF url = UrlA2 THEN <<"b">> ELSE <<"a">>,
   sourceColumn |-> IF url = UrlA2 THEN "G" ELSE "F"]

EntryValues ==
  { EntryOf(UrlA, t, r) : t \in {Week1, Week0, Unnamed1, Unnamed2}, r \in EntryRows }
  \cup { EntryOf(UrlA2, t, r) : t \in {Week1, Unnamed1}, r \in EntryRows }
  \cup { EntryOf(UrlB, Week1, 4), EntryOf(<< >>, Unnamed1, 4), EntryOf(<<Space>>, Unnamed1, 7) }

EntryLists == UNION { [1..n -> EntryValues] : n \in 0..MaxEntries }

UtilsInit ==
  /\ ManagerIdle
  /\ WriteIdle
  /\ FetchIdle
  /\ BidderIdle
  /\ allEntries \in EntryLists
  /\ submitted = << >>
  /\ otherUrl = << >>
  /\ duplicates = NotCalled
  /\ dupCheck = NotCalled
  /\ sameUrls = NotCalled
  /\ urlKey = NotCalled
  /\ sortedTabs = NotCalled

NoCallYet == duplicates = NotCalled /\ dupCheck = NotCalled /\ sameUrls = NotCalled

FindDuplicatesCall ==
  /\ NoCallYet
  /\ duplicates' = [called |-> TRUE, groups |-> findDuplicates(allEntries)]
  /\ UNCHANGED <<allEntries, submitted, otherUrl, dupCheck, sameUrls, urlKey, sortedTabs>>
  /\ UNCHANGED notUtils

CheckUrlDuplicateCall ==
  /\ NoCallYet
  /\ \E url \in UrlInputs :
       /\ submitted' = url
       /\ dupCheck' = [called |-> TRUE, result |-> checkUrlDuplicate(url, allEntries)]
  /\ UNCHANGED <<allEntries, otherUrl, duplicates, sameUrls, urlKey, sortedTabs>>
  /\ UNCHANGED notUtils

AreUrlsDuplicateCall ==
  /\ NoCallYet
  /\ \E url1 \in UrlInputs, url2 \in UrlInputs :
       /\ submitted' = url1
       /\ otherUrl' = url2
       /\ sameUrls' = [called |-> TRUE, result |-> areUrlsDuplicate(url1, url2)]
  /\ UNCHANGED <<allEntries, duplicates, dupCheck, urlKey, sortedTabs>>
  /\ UNCHANGED notUtils

UtilsNext ==
  \/ FindDuplicatesCall
  \/ CheckUrlDuplicateCall
  \/ AreUrlsDuplicateCall

SpecUtils == UtilsInit /\ [][UtilsNext]_vars

(***************************************************************************)
(* Properties of the utilities (specification SpecUtils)                   *)
(***************************************************************************)
Groups == IF duplicates = NotCalled THEN << >> ELSE duplicates.groups

\* the entries of the input that normalize to a key
WithKey(entries, key) == { i \in DOMAIN entries : normalizeUrl(entries[i].url) = key }

\* the permutations of a list
Orderings(entries) ==
  { [i \in DOMAIN entries |-> entries[f[i]]] :
      f \in { g \in [DOMAIN entries -> DOMAIN entries] :
                \A i, j \in DOMAIN entries : g[i] = g[j] => i = j } }

\* the start date of an entry's tab and its row, compared in this order
Earlier(a, b) ==
  \/ parseTabRange(a.tabName).start < parseTabRange(b.tabName).start
  \/ /\ parseTabRange(a.tabName).start = parseTabRange(b.tabName).start
     /\ a.rowIndex <= b.rowIndex

AllParsable(entries) == \A i \in DOMAIN entries : parseTabRange(entries[i].tabName).ok
NoneParsable(entries) == \A i \in DOMAIN entries : ~parseTabRange(entries[i].tabName).ok
SameTab(entries) == \A i, j \in DOMAIN entries : entries[i].tabName = entries[j].tabName

\* C15: every group findDuplicates returns has at least two entries, which
\* are the entries of the input that normalize to the group's key, and
\* exactly its first entry has isDuplicate = false.
C15_GroupsHaveTwoEntries ==
  \A g \in DOMAIN Groups :
    LET group == Groups[g] IN
    /\ Len(group.entries) >= 2
    /\ Len(group.entries) = Cardinality(WithKey(allEntries, group.key))
    /\ \A i \in DOMAIN group.entries :
         /\ normalizeUrl(group.entries[i].url) = group.key
         /\ group.entries[i].isDuplicate = (i # 1)

\* a call whose input has a key with two entries and a key with one
C15_Witness ==
  /\ Len(Groups) = 1
  /\ \E i \in DOMAIN allEntries :
       /\ normalizeUrl(allEntries[i].url) # << >>
       /\ Cardinality(WithKey(allEntries, normalizeUrl(allEntries[i].url))) = 1

\* C16: a group whose tabs all have parsable names is ordered by start date
\* and then by row, whatever the order of the input: its first entry is of
\* the tab that starts first, and of the lowest row among equal starts.
C16_ParsableTabsByDateThenRow ==
  \A g \in DOMAIN Groups :
    LET entries == Groups[g].entries IN
    AllParsable(entries) =>
      /\ \A i, j \in DOMAIN entries : i < j => Earlier(entries[i], entries[j])
      /\ \A list \in Orderings(allEntries) :
           \E h \in DOMAIN findDuplicates(list) :
             /\ findDuplicates(list)[h].key = Groups[g].key
             /\ \A j \in DOMAIN entries :
                  Earlier(findDuplicates(list)[h].entries[1], entries[j])

\* three entries of two parsable tabs, given with the later tab first
C16_Witness ==
  /\ Len(Groups) = 1
  /\ Len(Groups[1].entries) = 3
  /\ AllParsable(Groups[1].entries)
  /\ allEntries[1].tabName = Week1
  /\ Groups[1].entries[1].tabName = Week0
  /\ Groups[1].entries[2].tabName = Week1
  /\ Groups[1].entries[2].rowIndex < Groups[1].entries[3].rowIndex

\* C17: a group whose entries are all of one tab, or all of tabs with
\* unparsable names, is ordered by row: its first entry has the lowest row.
C17_SameOrUnparsableTabsByRow ==
  \A g \in DOMAIN Groups :
    LET entries == Groups[g].entries IN
    (SameTab(entries) \/ NoneParsable(entries)) =>
      \A i, j \in DOMAIN entries : i < j => entries[i].rowIndex <= entries[j].rowIndex

\* two entries of one unparsable tab, given with the higher row first
C17_Witness ==
  /\ Len(allEntries) = 2
  /\ Len(Groups) = 1
  /\ SameTab(Groups[1].entries)
  /\ NoneParsable(Groups[1].entries)
  /\ allEntries[1].rowIndex = 7
  /\ Groups[1].entries[1].rowIndex = 4

\* C18: findDuplicates returns the same groups, with the same entries in
\* the same order, for every permutation of its input.
C18_OrderIndependent ==
  duplicates # NotCalled =>
    \A list \in Orderings(allEntries) :
      /\ Len(findDuplicates(list)) = Len(Groups)
      /\ \A g \in DOMAIN Groups :
           \E h \in DOMAIN findDuplicates(list) : findDuplicates(list)[h] = Groups[g]

\* the entries that match the submitted URL
Matches == WithKey(allEntries, normalizeUrl(submitted))

\* C19: checkUrlDuplicate reports the first entry, in the order of the
\* list, whose normalized URL is that of the submitted URL, and reports
\* isDuplicate = false iff there is none.
C19_FirstMatchInListOrder ==
  dupCheck # NotCalled =>
    /\ dupCheck.result.isDuplicate = (Matches # {})
    /\ Matches # {} =>
         LET first == allEntries[Min(Matches)] IN
         dupCheck.result.duplicateInfo =
           [tabName |-> first.tabName, position |-> first.position]

\* two matching entries, the first of the list being of the later tab and row
C19_Witness ==
  /\ dupCheck # NotCalled
  /\ Cardinality(Matches) = 2
  /\ Len(allEntries) = 3
  /\ 1 \notin Matches
  /\ allEntries[2].tabName = Week1 /\ allEntries[2].rowIndex = 7
  /\ allEntries[3].tabName = Week0 /\ allEntries[3].rowIndex = 4
  /\ dupCheck.result.duplicateInfo.tabName = Week1

\* C20: an empty or non-string URL normalizes to the empty string and
\* matches nothing: not another empty URL, not an entry with an empty URL,
\* and no group has the empty key.
C20_EmptyMatchesNothing ==
  /\ normalizeUrl(<< >>) = << >> /\ normalizeUrl(NotAString) = << >>
  /\ sameUrls # NotCalled /\ normalizeUrl(submitted) = << >>
       /\ normalizeUrl(otherUrl) = << >> => ~sameUrls.result
  /\ dupCheck # NotCalled /\ normalizeUrl(submitted) = << >>
       => ~dupCheck.result.isDuplicate
  /\ \A g \in DOMAIN Groups : Groups[g].key # << >>

\* the fetched entries a group entry was built from
BuiltFrom(entry) ==
  { k \in DOMAIN allEntries :
      /\ allEntries[k].url = entry.url
      /\ allEntries[k].tabName = entry.tabName
      /\ allEntries[k].rowIndex = entry.rowIndex }

\* the tabs of the fetched entries
EntryTabs == { allEntries[k].tabName : k \in DOMAIN allEntries }

\* C25: every entry of a group has the sourceColumn ('F' or 'G') of the
\* fetched entry it was built from, and every update built from the groups
\* carries the source column of the duplicate entry it annotates.
C25_GroupsKeepSourceColumn ==
  /\ \A g \in DOMAIN Groups : \A i \in DOMAIN Groups[g].entries :
       \A k \in BuiltFrom(Groups[g].entries[i]) :
         SourceColumnOf(Groups[g].entries[i]) = allEntries[k].sourceColumn
  /\ \A u \in Range(MarkUpdates(Groups, EntryTabs)) :
       \E k \in DOMAIN allEntries :
         /\ allEntries[k].tabName = u.tabName
         /\ allEntries[k].rowIndex = u.rowIndex
         /\ allEntries[k].sourceColumn = u.sourceColumn

(***************************************************************************)
(* The bidder's duplicate check (JobLinkInput.tsx): handleCheckDuplicates, *)
(* loadExistingData with its cache, and handleProfileSelected.  The        *)
(* handler runs from one await of an API request to the next; a profile    *)
(* can be selected and time passes while a request is awaited.             *)
(*                                                                         *)
(* An entry carries three history fields the code does not have: the       *)
(* spreadsheet it was read from, the profile of the call that fetched it,  *)
(* and whether the running call fetched it (fresh).                        *)
(***************************************************************************)
Profiles == {"p1", "p2", "p3"}

\* extractSpreadsheetId(profile.sheetUri)
extractSpreadsheetId(profile) == IF profile = "p2" THEN "s2" ELSE "s1"

\* the profiles with credentials in localStorage
WithCredentials == {"p1", "p2"}

CACHE_TTL == 5

\* what the textarea may hold when the button is clicked: lines
JobLinkTexts == { <<<<Space>>, UrlB, UrlA2>> }

\* jobLinks.split('\n').map(line => line.trim()).filter(line => line.length > 0)
RECURSIVE Links(_)
Links(lines) ==
  IF lines = << >> THEN << >>
  ELSE IF Trim(Head(lines)) = << >> THEN Links(Tail(lines))
  ELSE <<Trim(Head(lines))>> \o Links(Tail(lines))

\* the answers of getAllTabs: allTabs.length
TabCounts == {0, 4, 5}

\* the answers of getJobUrlsFromTabs for a spreadsheet, fetched for a profile
ServerUrls(sheet, profile) ==
  { << >>,
    <<[url |-> UrlA, tabName |-> Week1, position |-> <<"a">>,
       sheet |-> sheet, scope |-> profile, fresh |-> TRUE]>> }

\* history: entries held from an earlier call are not fresh
Aged(urls) == [i \in DOMAIN urls |-> [urls[i] EXCEPT !.fresh = FALSE]]

BidderInit ==
  /\ ManagerIdle
  /\ WriteIdle
  /\ FetchIdle
  /\ UtilsIdle
  /\ bidderInfo \in Profiles
  /\ sessionSheet = extractSpreadsheetId(bidderInfo)
  /\ cacheRef = NoCache
  /\ existingUrls = << >>
  /\ now = 0
  /\ cpc = "idle"
  /\ closure = NoClosure
  /\ allTabsCount = 0
  /\ fetchedUrls = NotFetched
  /\ loadedUrls = << >>
  /\ uiError = "none"
  /\ linkStatuses = << >>
  /\ lookup = NoLookup
  /\ requests = << >>
  /\ usedUrls = << >>
  /\ switched = FALSE
  /\ leftScope = "none"

\* a mutant of CacheValid: an entry of age TTL is still served
CacheValid_inclusive(cache, spreadsheetId, profileName, time) ==
  /\ cache # NoCache
  /\ cache.spreadsheetId = spreadsheetId
  /\ cache.profileName = profileName
  /\ time - cache.timestamp <= CACHE_TTL

\* the cache check of loadExistingData
CacheValid(cache, spreadsheetId, profileName, time) ==
  /\ cache # NoCache
  /\ cache.spreadsheetId = spreadsheetId
  /\ cache.profileName = profileName
  /\ time - cache.timestamp < CACHE_TTL

\* an API request: apiCall reads the spreadsheet ID when it is called
Request(action) == [action |-> action, spreadsheetId |-> sessionSheet]

\* links.map(url => checkUrlDuplicate(url, urlsToCheck))
Statuses(links, urlsToCheck) ==
  [i \in DOMAIN links |->
     [url |-> links[i], status |-> checkUrlDuplicate(links[i], urlsToCheck)]]

\* cacheRef.current?.urls || loadedUrls || existingUrls: an array is truthy
UrlsToCheck(cache, loaded) == IF cache # NoCache THEN cache.urls ELSE loaded

\* handleCheckDuplicates once loadExistingData has returned, with the cache
\* and the error loadExistingData left
AfterLoad(cache, loaded, err, lines) ==
  /\ loadedUrls' = loaded
  /\ uiError' = err
  /\ IF UrlsToCheck(cache, loaded) = << >>
       THEN /\ cpc' = "wait"
            /\ usedUrls' = << >>
            /\ UNCHANGED linkStatuses
       ELSE /\ cpc' = "idle"
            /\ linkStatuses' = Statuses(Links(lines), UrlsToCheck(cache, loaded))
            /\ usedUrls' = UrlsToCheck(cache, loaded)

\* the click on the button: handleCheckDuplicates up to the first await of
\* loadExistingData, or to its end when the cache is served
CheckStart ==
  /\ cpc = "idle"
  /\ \E lines \in JobLinkTexts :
       LET cache == [cacheRef EXCEPT !.urls = Aged(@)]
           spreadsheetId == extractSpreadsheetId(bidderInfo)
           valid == CacheValid(cache, spreadsheetId, bidderInfo, now)
       IN  /\ closure' = [bidderInfo |-> bidderInfo, existingUrls |-> Aged(existingUrls),
                          now |-> now, links |-> lines]
           /\ lookup' = [outcome |-> IF valid THEN "hit" ELSE "miss", cache |-> cache,
                         spreadsheetId |-> spreadsheetId, profileName |-> bidderInfo,
                         now |-> now]
           /\ cacheRef' = cache
           /\ fetchedUrls' = NotFetched
           /\ allTabsCount' = 0
           /\ IF valid
                THEN /\ existingUrls' = cache.urls
                     /\ requests' = << >>
                     /\ AfterLoad(cache, cache.urls, "none", lines)
                ELSE /\ existingUrls' = Aged(existingUrls)
                     /\ requests' = <<Request("getAllTabs")>>
                     /\ cpc' = "tabs"
                     /\ uiError' = "none"
                     /\ loadedUrls' = << >>
                     /\ usedUrls' = << >>
                     /\ UNCHANGED linkStatuses
  /\ UNCHANGED <<bidderInfo, sessionSheet, now, switched, leftScope>>
  /\ UNCHANGED notBidder

\* the catch of loadExistingData: the error is shown and [] is returned
LoadFails ==
  /\ AfterLoad(cacheRef, << >>, "load", closure.links)
  /\ UNCHANGED <<cacheRef, existingUrls, allTabsCount, fetchedUrls, requests>>

\* the cache update of loadExistingData and its return
StoreUrls(urls) ==
  LET cache == [spreadsheetId |-> extractSpreadsheetId(closure.bidderInfo),
                profileName |-> closure.bidderInfo,
                urls |-> urls,
                timestamp |-> closure.now]
  IN  /\ cacheRef' = cache
      /\ existingUrls' = urls
      /\ AfterLoad(cache, urls, "none", closure.links)

\* getAllTabs answers
TabsReturn ==
  /\ cpc = "tabs"
  /\ \/ LoadFails
     \/ \E n \in TabCounts :
          IF n = 0
            THEN LoadFails
            ELSE /\ allTabsCount' = n
                 /\ requests' = Append(requests, Request("getJobUrlsFromTabs"))
                 /\ cpc' = "urls"
                 /\ UNCHANGED <<cacheRef, existingUrls, fetchedUrls, loadedUrls, uiError,
                                linkStatuses, usedUrls>>
  /\ UNCHANGED <<bidderInfo, sessionSheet, now, closure, lookup, switched, leftScope>>
  /\ UNCHANGED notBidder

\* getJobUrlsFromTabs(last4Tabs) answers
UrlsReturn ==
  /\ cpc = "urls"
  /\ \/ LoadFails
     \/ \E urls \in ServerUrls(requests[Len(requests)].spreadsheetId, closure.bidderInfo) :
          /\ fetchedUrls' = [fetched |-> TRUE, urls |-> urls]
          /\ IF urls = << >> /\ allTabsCount > 4
               THEN /\ requests' = Append(requests, Request("getJobUrlsFromTabs"))
                    /\ cpc' = "widen"
                    /\ UNCHANGED <<cacheRef, existingUrls, loadedUrls, uiError,
                                   linkStatuses, usedUrls>>
               ELSE /\ StoreUrls(urls)
                    /\ UNCHANGED requests
          /\ UNCHANGED allTabsCount
  /\ UNCHANGED <<bidderInfo, sessionSheet, now, closure, lookup, switched, leftScope>>
  /\ UNCHANGED notBidder

\* getJobUrlsFromTabs(allTabs) answers: its URLs are only counted
WidenReturn ==
  /\ cpc = "widen"
  /\ \/ LoadFails
     \/ /\ StoreUrls(fetchedUrls.urls)
        /\ UNCHANGED <<allTabsCount, fetchedUrls, requests>>
  /\ UNCHANGED <<bidderInfo, sessionSheet, now, closure, lookup, switched, leftScope>>
  /\ UNCHANGED notBidder

\* the 200 ms of handleCheckDuplicates are over
WaitDone ==
  /\ cpc = "wait"
  /\ LET urlsToCheck == UrlsToCheck(cacheRef, closure.existingUrls) IN
     IF urlsToCheck = << >>
       THEN /\ uiError' = "nodata"
            /\ UNCHANGED <<linkStatuses, usedUrls>>
       ELSE /\ linkStatuses' = Statuses(Links(closure.links), urlsToCheck)
            /\ usedUrls' = urlsToCheck
            /\ UNCHANGED uiError
  /\ cpc' = "idle"
  /\ UNCHANGED <<bidderInfo, sessionSheet, cacheRef, existingUrls, now, closure,
                 allTabsCount, fetchedUrls, loadedUrls, lookup, requests, switched,
                 leftScope>>
  /\ UNCHANGED notBidder

\* a mutant of CacheAfterSelect: the slot is kept
CacheAfterSelect_kept(cache) == cache

\* cacheRef.current = null
CacheAfterSelect(cache) == NoCache

\* a profile is made active: handleSetActive of ProfileManager and
\* handleProfileSelected
HandleProfileSelected ==
  /\ \E profile \in Profiles :
       /\ bidderInfo' = profile
       /\ sessionSheet' = IF profile \in WithCredentials
                            THEN extractSpreadsheetId(profile) ELSE sessionSheet
  /\ cacheRef' = CacheAfterSelect(cacheRef)
  /\ existingUrls' = << >>
  /\ linkStatuses' = << >>
  /\ usedUrls' = << >>
  /\ switched' = (switched \/ cpc # "idle")
  /\ leftScope' = IF cacheRef.urls # << >> THEN cacheRef.profileName ELSE leftScope
  /\ UNCHANGED <<now, cpc, closure, allTabsCount, fetchedUrls, loadedUrls, uiError,
                 lookup, requests>>
  /\ UNCHANGED notBidder

\* time passes
Tick ==
  /\ now < MaxTime
  /\ now' = now + 1
  /\ UNCHANGED <<bidderInfo, sessionSheet, cacheRef, existingUrls, cpc, closure,
                 allTabsCount, fetchedUrls, loadedUrls, uiError, linkStatuses, lookup,
                 requests, usedUrls, switched, leftScope>>
  /\ UNCHANGED notBidder

BidderNext ==
  \/ CheckStart
  \/ TabsReturn
  \/ UrlsReturn
  \/ WidenReturn
  \/ WaitDone
  \/ HandleProfileSelected
  \/ Tick

SpecBidder == BidderInit /\ [][BidderNext]_vars

(***************************************************************************)
(* Properties of the bidder's duplicate check (specification SpecBidder)   *)
(***************************************************************************)
\* C11: when the URLs fetched from the tabs to check are none, the call of
\* handleCheckDuplicates ends with the "no existing URLs found" error and
\* checks the links against nothing.
C11_EmptyAggregateIsNoData ==
  (cpc = "idle" /\ fetchedUrls.fetched /\ fetchedUrls.urls = << >>) =>
    (uiError = "nodata" /\ usedUrls = << >>)

\* C12: the cache check serves the stored entries iff the stored
\* spreadsheet and profile are the requested ones and the entry is younger
\* than 5 minutes; otherwise it is a miss and getAllTabs is requested.
C12_CacheServedIffValid ==
  lookup.outcome # "none" =>
    /\ lookup.outcome = "hit" <=>
         /\ lookup.cache # NoCache
         /\ lookup.cache.spreadsheetId = lookup.spreadsheetId
         /\ lookup.cache.profileName = lookup.profileName
         /\ lookup.now - lookup.cache.timestamp < CACHE_TTL
    /\ lookup.outcome = "hit" =>
         /\ requests = << >>
         /\ loadedUrls = lookup.cache.urls
         /\ (loadedUrls # << >> /\ linkStatuses # << >>) => usedUrls = lookup.cache.urls
    /\ lookup.outcome = "miss" =>
         /\ requests # << >>
         /\ requests[1].action = "getAllTabs"

\* a lookup of the stored pair at the age of exactly 5 minutes: a miss
C12_Witness ==
  /\ lookup.outcome = "miss"
  /\ lookup.cache.urls # << >>
  /\ lookup.cache.spreadsheetId = lookup.spreadsheetId
  /\ lookup.cache.profileName = lookup.profileName
  /\ lookup.now - lookup.cache.timestamp = CACHE_TTL
  /\ Len(requests) = 2
  /\ ~switched

\* C13: after a cache miss the links are checked against entries the call
\* itself fetched, never against entries held from before, also when the
\* re-fetch fails.
C13_MissUsesFreshEntries ==
  lookup.outcome = "miss" => \A i \in DOMAIN usedUrls : usedUrls[i].fresh

C26_CacheHoldsEntriesOfItsKey ==
  /\ cacheRef # NoCache =>
       \A i \in DOMAIN cacheRef.urls : cacheRef.urls[i].sheet = cacheRef.spreadsheetId
  /\ lookup.outcome = "hit" =>
       \A i \in DOMAIN lookup.cache.urls :
         lookup.cache.urls[i].sheet = lookup.spreadsheetId

(***************************************************************************)
(* The calls of normalizeUrl and sortTabsByDate (specification SpecStrings).*)
(* A URL text is a scheme and host or none, a path, a query of up to       *)
(* MaxParams parameters and a fragment, bare or between whitespace.  A     *)
(* list of tab names has up to MaxSortTabs names.                          *)
(***************************************************************************)
MaxParams == 2
MaxSortTabs == 3

ParsedPaths ==
  {<< >>, <<"/">>, <<"/", "a">>, <<"/", "A", "/">>, <<"/", "a", "/", "/">>}

PlainTexts == {<< >>, <<"b">>, <<"b", "/">>, <<"b", "/", "/">>}

ParamTexts ==
  {<<"id", "=">>, <<"ID", "=", "v">>, <<"jobId", "=">>, <<"jobId", "=", "v">>,
   <<"jobid", "=">>, <<"utm_source", "=", "v">>, <<"utm_id", "=", "v">>,
   <<"utm_id", "=">>, <<"ref", "=", "v">>, <<"ref", "=">>, <<"k", "=", "v">>,
   <<"k", "=">>}

RECURSIVE JoinParams(_)
JoinParams(list) ==
  IF Len(list) = 1 THEN list[1]
  ELSE list[1] \o <<"&">> \o JoinParams(Tail(list))

QueryTexts ==
  {<< >>, <<"?">>}
  \cup { <<"?">> \o JoinParams(list) :
           list \in UNION { [1..n -> ParamTexts] : n \in 1..MaxParams } }

Fragments == {<< >>, <<"#", "k">>}

BareUrlTexts ==
  { <<o>> \o path \o q \o f :
      o \in Origins, path \in ParsedPaths, q \in QueryTexts, f \in Fragments }
  \cup { t \o q \o f : t \in PlainTexts, q \in QueryTexts, f \in Fragments }

UrlTexts ==
  BareUrlTexts
  \cup { <<Space>> \o t : t \in {UrlA, UrlA2, UrlB} }
  \cup { <<Space>> \o t \o <<Space>> : t \in {<< >>, UrlA, UrlA2, UrlB} }
  \cup {NotAString}

SortTabNames == {Week1, Week0, Unnamed1, Unnamed2}

SortTabLists == UNION { [1..n -> SortTabNames] : n \in 0..MaxSortTabs }

StringsInit ==
  /\ ManagerIdle
  /\ WriteIdle
  /\ FetchIdle
  /\ BidderIdle
  /\ UtilsIdle

NoStringCallYet == urlKey = NotCalled /\ sortedTabs = NotCalled

NormalizeUrlCall ==
  /\ NoStringCallYet
  /\ \E url \in UrlTexts :
       /\ submitted' = url
       /\ urlKey' = [called |-> TRUE, result |-> normalizeUrl(url)]
  /\ UNCHANGED <<allEntries, otherUrl, duplicates, dupCheck, sameUrls, sortedTabs>>
  /\ UNCHANGED notUtils

\* the array is sorted in place and returned
SortTabsByDateCall ==
  /\ NoStringCallYet
  /\ \E tabList \in SortTabLists :
       sortedTabs' = [called |-> TRUE, given |-> tabList,
                      result |-> sortTabsByDate(tabList)]
  /\ UNCHANGED <<allEntries, submitted, otherUrl, duplicates, dupCheck, sameUrls,
                 urlKey>>
  /\ UNCHANGED notUtils

StringsNext ==
  \/ NormalizeUrlCall
  \/ SortTabsByDateCall

SpecStrings == StringsInit /\ [][StringsNext]_vars

(***************************************************************************)
(* Properties of normalizeUrl and sortTabsByDate (specification            *)
(* SpecStrings)                                                            *)
(***************************************************************************)
\* C21: normalizeUrl is idempotent: normalizing what it returned returns the
\* same text, on the parsed path and on the fallback path, also for inputs
\* that end in several slashes.
C21_NormalizeIdempotent ==
  urlKey # NotCalled => normalizeUrl(urlKey.result) = urlKey.result

\* the text "?utm_source=x"
TrackingSuffix == <<"?", "utm_source", "=", "x">>

\* C22 as stated: for every string u, u with "?utm_source=x" appended has
\* the normalized key of u.
C22_TrackingSuffixIgnored ==
  urlKey # NotCalled /\ IsString(submitted) =>
    normalizeUrl(submitted \o TrackingSuffix) = urlKey.result

\* u parses as a URL, has no query yet and does not end in whitespace
PlainUrl(u) ==
  /\ IsString(u)
  /\ Parses(Trim(u))
  /\ IndexOf(BeforeHash(Trim(u)), "?") > Len(BeforeHash(Trim(u)))
  /\ u[Len(u)] # Space

\* C22, amended: for every u that parses as a URL, carries no "?" before
\* its fragment and does not end in whitespace, u with "?utm_source=x"
\* appended has the normalized key of u.
C22_TrackingSuffixIgnoredOnPlainUrl ==
  urlKey # NotCalled /\ PlainUrl(submitted) =>
    normalizeUrl(submitted \o TrackingSuffix) = urlKey.result

\* C22 witness: normalizeUrl was called with a URL of a path with a trailing
\* slash and no query, and the URL with the suffix has its key
C22_Witness ==
  /\ urlKey # NotCalled
  /\ submitted = UrlA2
  /\ PlainUrl(submitted)
  /\ normalizeUrl(submitted \o TrackingSuffix) = UrlA

\* the job-identifier keys and the tracking keys the rule names
AllowedKeys == {<<"jk">>, <<"id">>, <<"jobid">>, <<"job_id">>, <<"positionid">>,
                <<"position_id">>, <<"req">>, <<"reqid">>}
DeniedKeys ==
  {<<"utm_source">>, <<"utm_id">>, <<"ref">>, <<"source">>, <<"fbclid">>,
   <<"gclid">>, <<"msclkid">>, <<"_ga">>, <<"_gid">>}

\* the rule: allow-listed keys stay, deny-listed keys go, others stay iff
\* they have a value
RuleKeeps(param) ==
  LET lowerKey == ToLowerCase(param.key) IN
  IF lowerKey \in AllowedKeys THEN TRUE
  ELSE IF lowerKey \in DeniedKeys THEN FALSE
  ELSE param.value # << >>

LowerParam(param) == [key |-> ToLowerCase(param.key), value |-> ToLowerCase(param.value)]

RECURSIVE RuleParams(_)
RuleParams(params) ==
  IF params = << >> THEN << >>
  ELSE IF RuleKeeps(Head(params))
         THEN <<LowerParam(Head(params))>> \o RuleParams(Tail(params))
         ELSE RuleParams(Tail(params))

\* C23: on a parsed URL the parameters of the normalized key are those of
\* the input that the rule keeps: a parameter with an allow-listed lowercased
\* key is retained even with an empty value, one with a deny-listed
\* lowercased key (any utm_ key among them) is dropped, any other is retained
\* iff its value is non-empty.
C23_ParamsFilteredByRule ==
  urlKey # NotCalled /\ IsString(submitted) /\ Parses(Trim(submitted)) =>
    SearchParams(Search(urlKey.result))
      = RuleParams(SearchParams(Search(Trim(submitted))))

\* the names of a list that have a range, and those that have none
RECURSIVE NamesWhere(_, _)
NamesWhere(list, parsable) ==
  IF list = << >> THEN << >>
  ELSE IF parseTabRange(Head(list)).ok = parsable
         THEN <<Head(list)>> \o NamesWhere(Tail(list), parsable)
         ELSE NamesWhere(Tail(list), parsable)

CountIn(list, x) == Cardinality({i \in DOMAIN list : list[i] = x})

\* C24: sortTabsByDate returns a permutation of its input in which the names
\* with a range are in ascending order of their start date and the names
\* without one keep their relative order.
C24_SortedByStartDate ==
  sortedTabs # NotCalled =>
    LET result == sortedTabs.result
        dated == NamesWhere(result, TRUE)
    IN  /\ Len(result) = Len(sortedTabs.given)
        /\ \A x \in SortTabNames : CountIn(result, x) = CountIn(sortedTabs.given, x)
        /\ \A i \in DOMAIN dated : \A j \in DOMAIN dated :
             i < j => parseTabRange(dated[i]).start <= parseTabRange(dated[j]).start
        /\ NamesWhere(result, FALSE) = NamesWhere(sortedTabs.given, FALSE)

(***************************************************************************)
(* The bid manager's page (DuplicateChecker.tsx with the AccountManager it *)
(* renders): handleCheckDuplicates, handleMarkDuplicates, the select of    *)
(* the tab count and handleSetActive.  A handler runs from one await of an *)
(* API request to the next; accounts can be made active while a request is *)
(* awaited.  Every request carries the spreadsheet ID that sessionStorage  *)
(* holds when the request is made.                                         *)
(***************************************************************************)
Accounts == {"a1", "a2", "a3"}

\* account.spreadsheetId, "none" for an account saved without one
SpreadsheetOf(account) ==
  CASE account = "a1" -> "s1" [] account = "a2" -> "s2" [] OTHER -> "none"

\* the values of the select
TabCountValues == {"all", "4"}

\* Number(value)
NumberOf(value) == 4

\* allTabs.slice(-tabCount)
LastTabs(allTabs, n) ==
  IF Len(allTabs) <= n THEN allTabs
  ELSE SubSeq(allTabs, Len(allTabs) - n + 1, Len(allTabs))

\* tabCount === 'all' ? allTabs : allTabs.slice(-tabCount)
TabsToCheck(allTabs, count) ==
  IF count = "all" THEN allTabs ELSE LastTabs(allTabs, NumberOf(count))

\* what the server answers to getAllTabs for a spreadsheet
AllTabsOf(spreadsheetId) ==
  IF spreadsheetId = "s1" THEN <<Unnamed1, Week0, Week1, Unnamed2, <<"b">>>>
  ELSE <<Week1>>

\* what the server answers to getAllJobUrls for a spreadsheet
AllJobUrlsOf(spreadsheetId) ==
  IF spreadsheetId = "s1"
    THEN <<EntryOf(UrlA, Unnamed1, 4), EntryOf(UrlA, Week1, 4), EntryOf(UrlA2, Week1, 7)>>
    ELSE <<EntryOf(UrlB, Week1, 4), EntryOf(UrlB, Week1, 7)>>

\* allUrls.filter(url => tabsToCheck.includes(url.tabName))
RECURSIVE FilterByTabs(_, _)
FilterByTabs(urls, tabs) ==
  IF urls = << >> THEN << >>
  ELSE IF Head(urls).tabName \in tabs
         THEN <<Head(urls)>> \o FilterByTabs(Tail(urls), tabs)
         ELSE FilterByTabs(Tail(urls), tabs)

\* loadAccounts and checkActiveAccount when the page is opened in a new session
ManagerInit ==
  /\ WriteIdle
  /\ FetchIdle
  /\ UtilsIdle
  /\ BidderIdle
  /\ activeAccountId \in Accounts \cup {"none"}
  /\ storedSheetId = IF activeAccountId = "none" THEN "none"
                     ELSE SpreadsheetOf(activeAccountId)
  /\ hasActiveAccount = (activeAccountId # "none")
  /\ tabCount = "all"
  /\ shownDuplicates = << >>
  /\ checkedTabs = << >>
  /\ mpc = "idle"
  /\ tabsToCheck = << >>
  /\ checkRequest = NoRequest
  /\ upc = "idle"
  /\ markRequest = NoRequest
  /\ pageError = "none"
  /\ computedFrom = "none"
  /\ written = {}

\* apiCall: the request body gets the spreadsheet ID of sessionStorage
ManagerRequest(action) == [action |-> action, spreadsheetId |-> storedSheetId]

\* handleSetActive of the AccountManager, and checkActiveAccount on the
\* accountUpdated event it dispatches
HandleSetActive ==
  /\ \E account \in Accounts :
       /\ activeAccountId' = account
       /\ storedSheetId' = SpreadsheetOf(account)
  /\ hasActiveAccount' = TRUE
  /\ UNCHANGED <<tabCount, shownDuplicates, checkedTabs, mpc, tabsToCheck, checkRequest,
                 upc, markRequest, pageError, computedFrom, written>>
  /\ UNCHANGED notManager

\* onChange of the select of the tab count
ChangeTabCount ==
  /\ mpc = "idle"
  /\ hasActiveAccount
  /\ \E value \in TabCountValues \ {tabCount} : tabCount' = value
  /\ shownDuplicates' = << >>
  /\ checkedTabs' = << >>
  /\ pageError' = "none"
  /\ computedFrom' = "none"
  /\ UNCHANGED <<activeAccountId, storedSheetId, hasActiveAccount, mpc, tabsToCheck,
                 checkRequest, upc, markRequest, written>>
  /\ UNCHANGED notManager

\* the catch and finally of handleCheckDuplicates
CheckFails ==
  /\ mpc' = "idle"
  /\ checkRequest' = NoRequest
  /\ pageError' = "check"

\* the click on 'Check for Duplicates': handleCheckDuplicates up to the
\* await of getAllTabs
ManagerCheckStart ==
  /\ mpc = "idle"
  /\ hasActiveAccount
  /\ shownDuplicates' = << >>
  /\ computedFrom' = "none"
  /\ tabsToCheck' = << >>
  /\ IF storedSheetId = "none"
       THEN CheckFails
       ELSE /\ mpc' = "tabs"
            /\ checkRequest' = ManagerRequest("getAllTabs")
            /\ pageError' = "none"
  /\ UNCHANGED <<activeAccountId, storedSheetId, hasActiveAccount, tabCount, checkedTabs,
                 upc, markRequest, written>>
  /\ UNCHANGED notManager

\* getAllTabs answers: the tabs to check are stored and getAllJobUrls is called
ManagerTabsReturn ==
  /\ mpc = "tabs"
  /\ \/ /\ CheckFails
        /\ UNCHANGED <<checkedTabs, tabsToCheck>>
     \/ LET allTabs == AllTabsOf(checkRequest.spreadsheetId) IN
        /\ checkedTabs' = TabsToCheck(allTabs, tabCount)
        /\ tabsToCheck' = TabsToCheck(allTabs, tabCount)
        /\ IF storedSheetId = "none"
             THEN CheckFails
             ELSE /\ mpc' = "urls"
                  /\ checkRequest' = ManagerRequest("getAllJobUrls")
                  /\ UNCHANGED pageError
  /\ UNCHANGED <<activeAccountId, storedSheetId, hasActiveAccount, tabCount,
                 shownDuplicates, upc, markRequest, computedFrom, written>>
  /\ UNCHANGED notManager

\* getAllJobUrls answers: the groups of the entries of the tabs to check
ManagerUrlsReturn ==
  /\ mpc = "urls"
  /\ \/ /\ CheckFails
        /\ UNCHANGED <<shownDuplicates, computedFrom>>
     \/ LET filteredUrls == FilterByTabs(AllJobUrlsOf(checkRequest.spreadsheetId),
                                         Range(tabsToCheck))
        IN  /\ shownDuplicates' = findDuplicates(filteredUrls)
            /\ computedFrom' = checkRequest.spreadsheetId
            /\ mpc' = "idle"
            /\ checkRequest' = NoRequest
            /\ UNCHANGED pageError
  /\ UNCHANGED <<activeAccountId, storedSheetId, hasActiveAccount, tabCount, checkedTabs,
                 tabsToCheck, upc, markRequest, written>>
  /\ UNCHANGED notManager

\* the click on 'Mark Duplicate(s)': handleMarkDuplicates up to the await of
\* batchUpdateFeedback.  The button is there while groups are on display.
MarkStart ==
  /\ upc = "idle"
  /\ shownDuplicates # << >>
  /\ LET markUpdates == MarkUpdates(shownDuplicates, Range(checkedTabs)) IN
     IF ~hasActiveAccount
       THEN pageError' = "no account" /\ UNCHANGED <<upc, markRequest>>
     ELSE IF checkedTabs = << >>
       THEN pageError' = "no tabs" /\ UNCHANGED <<upc, markRequest>>
     ELSE IF markUpdates = << >>
       THEN pageError' = "nothing to mark" /\ UNCHANGED <<upc, markRequest>>
     ELSE IF storedSheetId = "none"
       THEN pageError' = "mark" /\ UNCHANGED <<upc, markRequest>>
     ELSE /\ upc' = "sent"
          /\ markRequest' = [action |-> "batchUpdateFeedback",
                             spreadsheetId |-> storedSheetId,
                             updates |-> markUpdates,
                             origin |-> computedFrom]
          /\ pageError' = "none"
  /\ UNCHANGED <<activeAccountId, storedSheetId, hasActiveAccount, tabCount,
                 shownDuplicates, checkedTabs, mpc, tabsToCheck, checkRequest,
                 computedFrom, written>>
  /\ UNCHANGED notManager

\* history: the server wrote to the spreadsheet of the request
WrittenAfter(request) ==
  written \cup {[spreadsheetId |-> request.spreadsheetId, origin |-> request.origin]}

\* batchUpdateFeedback answers: all written, some written (207), or an error
MarkReturn ==
  /\ upc = "sent"
  /\ \/ /\ written' = WrittenAfter(markRequest)
        /\ shownDuplicates' = << >>
        /\ checkedTabs' = << >>
        /\ computedFrom' = "none"
        /\ UNCHANGED pageError
     \/ /\ written' = WrittenAfter(markRequest)
        /\ pageError' = "protected"
        /\ UNCHANGED <<shownDuplicates, checkedTabs, computedFrom>>
     \/ /\ pageError' = "mark"
        /\ UNCHANGED <<written, shownDuplicates, checkedTabs, computedFrom>>
  /\ upc' = "idle"
  /\ markRequest' = NoRequest
  /\ UNCHANGED <<activeAccountId, storedSheetId, hasActiveAccount, tabCount, mpc,
                 tabsToCheck, checkRequest>>
  /\ UNCHANGED notManager

ManagerNext ==
  \/ HandleSetActive
  \/ ChangeTabCount
  \/ ManagerCheckStart
  \/ ManagerTabsReturn
  \/ ManagerUrlsReturn
  \/ MarkStart
  \/ MarkReturn

SpecManager == ManagerInit /\ [][ManagerNext]_vars

(***************************************************************************)
(* Properties of the bid manager's page (specification SpecManager)        *)
(***************************************************************************)
\* C30: whatever the interleaving of checks, selections of the active
\* account and marks, feedback is written only to the spreadsheet the
\* groups on display were computed from.
C30_MarksGoToCheckedSpreadsheet ==
  /\ upc = "sent" => markRequest.spreadsheetId = markRequest.origin
  /\ \A w \in written : w.spreadsheetId = w.origin

====
